---- MODULE Spec2Model ----
(***************************************************************************)
(* servios: the token-refresh interceptor of BaseService                   *)
(* (src/src/services/helpers.ts, setupInterceptors) as a state machine.    *)
(* One service instance, its InterceptorState, the requests sent through   *)
(* it and the refreshToken() promise chains it starts.                     *)
(*                                                                         *)
(* Tokens are numbers; 0 stands for null / the empty string (the values    *)
(* JavaScript treats as falsy).  A response status of 0 stands for an      *)
(* error without a response (error.response?.status is undefined).         *)
(***************************************************************************)
EXTENDS Integers, Sequences, FiniteSets, TLC

\* Bounds of the model.
MaxReq == 2
MaxRefresh == 2

Reqs == 1..MaxReq
Refs == 1..MaxRefresh

\* Tokens a user may put in the store with setToken(); 0 is removeToken().
UserTokens == {0, 1}
\* The accessToken / refreshToken the k-th refreshToken() call resolves with.
AccessOf(k) == 10 + k
RefreshOf(k) == 20 + k
\* An error the response interceptor may receive: an error with a response
\* carries its request's config and an HTTP status (0 for a network error
\* without response); an error without a config (one thrown before the
\* request was dispatched) carries no response either.
Failures ==
  {[hasConfig |-> TRUE, status |-> s] : s \in {0, 401, 503}}
    \cup {[hasConfig |-> FALSE, status |-> 0]}
\* retryOnStatusCodes: [401] is the default (types.ts 149).
DefaultRetryCodes == {401}
\* The option sets explored: the default token handlers (getToken / setToken on
\* one storage location) with and without a refreshToken handler, with the
\* default codes and with none; the same with setRefreshToken: undefined
\* given in the options, which replaces the default handler (types.ts 166);
\* and custom handlers whose setAccessToken writes a location getAccessToken
\* does not read, with two retry codes.
Configs ==
  {[retryOnStatusCodes |-> c, hasRefreshToken |-> h, hasSetRefreshToken |-> TRUE,
    handlers |-> "default"] :
      c \in {{}, DefaultRetryCodes}, h \in BOOLEAN}
    \cup {[retryOnStatusCodes |-> DefaultRetryCodes, hasRefreshToken |-> TRUE,
            hasSetRefreshToken |-> FALSE, handlers |-> "default"]}
    \cup {[retryOnStatusCodes |-> {401, 503}, hasRefreshToken |-> TRUE,
            hasSetRefreshToken |-> TRUE, handlers |-> "detached"]}

\* The Authorization header: absent, or `Bearer ${token}`; Undefined is the
\* token processQueueInternal is called without (helpers.ts 115, 190).
Undefined == -1

NoHeader == <<>>
Bearer(t) == <<"Bearer", t>>

(***************************************************************************)
(* The calling method of a request: getCallingMethodName,                  *)
(* isCallingMethodPublic (helpers.ts 32-72) and isPublicMethod             *)
(* (decorators.ts 27-39).  A string is the sequence of its characters; null *)
(* and the empty string are both <<>>.                                     *)
(***************************************************************************)

\* \w of a JavaScript regular expression.
WordChars ==
  {"a", "b", "c", "d", "e", "f", "g", "h", "i", "j", "k", "l", "m", "n",
   "o", "p", "q", "r", "s", "t", "u", "v", "w", "x", "y", "z", "A", "B",
   "C", "D", "E", "F", "G", "H", "I", "J", "K", "L", "M", "N", "O", "P",
   "Q", "R", "S", "T", "U", "V", "W", "X", "Y", "Z", "0", "1", "2", "3",
   "4", "5", "6", "7", "8", "9", "_"}

\* The string constants of getCallingMethodName.
S_at == <<"a", "t", " ">>
S_anonymous == <<"a", "n", "o", "n", "y", "m", "o", "u", "s">>
\* The substrings that make getCallingMethodName skip a line (helpers.ts 42-51).
SkipWords ==
  { <<"g", "e", "t", "C", "a", "l", "l", "i", "n", "g", "M", "e", "t", "h", "o", "d", "N", "a", "m", "e">>,
    <<"i", "s", "C", "a", "l", "l", "i", "n", "g", "M", "e", "t", "h", "o", "d", "P", "u", "b", "l", "i", "c">>,
    <<"r", "e", "q", "u", "e", "s", "t">>,
    <<".", "g", "e", "t", " ">>,
    <<".", "p", "o", "s", "t", " ">>,
    <<".", "p", "u", "t", " ">>,
    <<".", "p", "a", "t", "c", "h", " ">>,
    <<".", "d", "e", "l", "e", "t", "e", " ">> }

\* s.startsWith(p, i - 1), positions counted from 1.
StartsAt(s, p, i) ==
  i + Len(p) - 1 <= Len(s) /\ SubSeq(s, i, i + Len(p) - 1) = p

\* String.prototype.includes
includes(s, p) == \E i \in 1..Len(s) : StartsAt(s, p, i)

\* The length of the longest run of \w characters of s that starts at i.
RECURSIVE WordRun(_, _)
WordRun(s, i) ==
  IF i <= Len(s) /\ s[i] \in WordChars THEN 1 + WordRun(s, i + 1) ELSE 0

\* The group (\w+) of /(?:\w+\.)?(\w+)/ matched at position j of s: the word
\* after "word." when there is one, the word at j otherwise; <<>> for no match.
MatchFrom(s, j) ==
  LET n1 == WordRun(s, j)
      n2 == IF n1 > 0 /\ j + n1 <= Len(s) /\ s[j + n1] = "."
            THEN WordRun(s, j + n1 + 1) ELSE 0
  IN  IF n2 > 0 THEN SubSeq(s, j + n1 + 1, j + n1 + n2)
      ELSE IF n1 > 0 THEN SubSeq(s, j, j + n1 - 1)
      ELSE <<>>

\* line.match(/at (?:\w+\.)?(\w+)/)[1]: the leftmost match; <<>> for none.
matchAt(line) ==
  LET starts == {i \in 1..Len(line) :
                   StartsAt(line, S_at, i) /\ MatchFrom(line, i + Len(S_at)) # <<>>}
  IN  IF starts = {} THEN <<>>
      ELSE MatchFrom(line, (CHOOSE i \in starts : \A j \in starts : i <= j) + Len(S_at))

\* The loop of getCallingMethodName from line i on (helpers.ts 39-59).
RECURSIVE scanLines(_, _)
scanLines(lines, i) ==
  IF i > Len(lines) THEN <<>>
  ELSE IF \E p \in SkipWords : includes(lines[i], p) THEN scanLines(lines, i + 1)
  ELSE IF matchAt(lines[i]) # <<>> /\ matchAt(lines[i]) # S_anonymous
       THEN matchAt(lines[i])
  ELSE scanLines(lines, i + 1)

\* getCallingMethodName (helpers.ts 32-65) on the lines of new Error().stack.
getCallingMethodName(lines) == scanLines(lines, 1)

\* isPublicMethod (decorators.ts 27-39): target.classPublic is
\* PUBLIC_CLASS_KEY, target.metadata the names PUBLIC_METADATA_KEY maps to true.
isPublicMethod(target, methodName) ==
  IF target.classPublic THEN TRUE ELSE methodName \in target.metadata

\* isCallingMethodPublic (helpers.ts 67-72)
isCallingMethodPublic(instance, lines) ==
  IF getCallingMethodName(lines) = <<>> THEN FALSE
  ELSE isPublicMethod(instance, getCallingMethodName(lines))

\* finalIsPublic of BaseService.request (types.ts 213-214)
finalIsPublic(isPublic, instance, lines) ==
  isPublic \/ isCallingMethodPublic(instance, lines)

\* The methods of the service class OrgService.
MethodNames ==
  { <<"g", "e", "t", "P", "u", "b", "l", "i", "c", "O", "r", "g", "s">>,
    <<"c", "r", "e", "a", "t", "e", "O", "r", "g">>,
    <<"r", "e", "q", "u", "e", "s", "t", "O", "r", "g", "s">>,
    <<"l", "i", "s", "t">> }
Verbs ==
  { <<"g", "e", "t">>,
    <<"p", "o", "s", "t">>,
    <<"p", "u", "t">>,
    <<"p", "a", "t", "c", "h">>,
    <<"d", "e", "l", "e", "t", "e">> }
S_indent == <<" ", " ", " ", " ", "a", "t", " ">>

Frame(name) ==
  S_indent \o name
    \o <<" ", "(", "/", "a", "p", "p", "/", "o", "r", "g", ".", "t", "s", ":", "1", ":", "1", ")">>
MethodFrame(name) ==
  Frame(<<"O", "r", "g", "S", "e", "r", "v", "i", "c", "e", ".">> \o name)

\* new Error().stack, split in lines, as V8 writes it inside
\* getCallingMethodName when `outer` called method `method` of the service
\* and the method called this.<verb>(...).  The stack goes on with the
\* callers of `outer`: function main when outer is a method of the service,
\* then the top level of the module, which is Object.<anonymous> under
\* Module._compile for a CommonJS module ("cjs") and a line without a
\* function name for an ES module ("esm").
StackOf(method, verb, outer, top) ==
  << <<"E", "r", "r", "o", "r">>,
     Frame(<<"g", "e", "t", "C", "a", "l", "l", "i", "n", "g", "M", "e", "t", "h", "o", "d", "N", "a", "m", "e">>),
     Frame(<<"i", "s", "C", "a", "l", "l", "i", "n", "g", "M", "e", "t", "h", "o", "d", "P", "u", "b", "l", "i", "c">>),
     MethodFrame(<<"r", "e", "q", "u", "e", "s", "t">>),
     MethodFrame(verb),
     MethodFrame(method),
     IF outer \in MethodNames THEN MethodFrame(outer) ELSE Frame(outer) >>
  \o (IF outer \in MethodNames THEN << Frame(<<"m", "a", "i", "n">>) >> ELSE <<>>)
  \o (IF top = "cjs"
        THEN << Frame(<<"O", "b", "j", "e", "c", "t", ".", "<", "a", "n", "o", "n", "y", "m", "o", "u", "s", ">">>),
                Frame(<<"M", "o", "d", "u", "l", "e", ".", "_", "c", "o", "m", "p", "i", "l", "e">>) >>
        ELSE << S_indent \o <<"f", "i", "l", "e", ":", "/", "/", "/", "a", "p", "p", "/", "o", "r", "g", ".", "m", "j", "s", ":", "1", ":", "1">> >>)

(***************************************************************************)
(* The token store (src/src/services/token.ts).  A storage kind or key of  *)
(* "" stands for an absent (or empty) field, which `||` replaces by its    *)
(* default; an optional object is a sequence of length 0 or 1.  The cookie *)
(* jar of CookieManager, localStorage and sessionStorage are one map from  *)
(* <<kind, key>> to the stored token (0: nothing stored).                  *)
(***************************************************************************)
DEFAULT_ACCESS_TOKEN_KEY == "accessToken"
DEFAULT_REFRESH_TOKEN_KEY == "refreshToken"

\* A slot is a storage and a key in it.
Slots ==
  {"cookie", "localStorage", "sessionStorage"}
    \X {DEFAULT_ACCESS_TOKEN_KEY, DEFAULT_REFRESH_TOKEN_KEY}
\* The tokens passed to setToken / setRefreshToken.
Tokens == {1, 2}


\* let globalTokenConfig = { storage: 'cookie', tokenKey: 'accessToken', ... }
DefaultTokenConfig ==
  [tokenKey |-> DEFAULT_ACCESS_TOKEN_KEY, storage |-> "cookie",
   refreshToken |-> <<[tokenKey |-> DEFAULT_REFRESH_TOKEN_KEY, storage |-> "cookie"]>>]

\* The TokenConfig objects passed to configureToken, to the token functions
\* and as a service's tokenConfig: another storage, a key that is the default
\* refresh key, the same key in two storages, and an access entry that gets
\* its key by default with a refresh entry of that very key and storage.
TokenConfigs ==
  { [tokenKey |-> "", storage |-> "localStorage", refreshToken |-> <<>>],
    [tokenKey |-> DEFAULT_REFRESH_TOKEN_KEY, storage |-> "", refreshToken |-> <<>>],
    [tokenKey |-> DEFAULT_ACCESS_TOKEN_KEY, storage |-> "sessionStorage",
     refreshToken |-> <<[tokenKey |-> DEFAULT_ACCESS_TOKEN_KEY, storage |-> "localStorage"]>>],
    [tokenKey |-> "", storage |-> "sessionStorage",
     refreshToken |-> <<[tokenKey |-> DEFAULT_ACCESS_TOKEN_KEY, storage |-> "sessionStorage"]>>] }
\* The optional `config` argument of the token functions: left out, or one
\* of the first two objects.
OptTokenConfigs ==
  {<<>>} \cup {<<c>> : c \in {d \in TokenConfigs : d.refreshToken = <<>>}}

\* x || d
OrDefault(x, d) == IF x = "" THEN d ELSE x

\* configureToken(config): the new globalTokenConfig.
configureToken(config) ==
  [tokenKey |-> OrDefault(config.tokenKey, DEFAULT_ACCESS_TOKEN_KEY),
   storage |-> OrDefault(config.storage, "cookie"),
   refreshToken |->
     IF config.refreshToken # <<>>
       THEN <<[tokenKey |-> OrDefault(config.refreshToken[1].tokenKey,
                                      DEFAULT_REFRESH_TOKEN_KEY),
               storage |-> OrDefault(config.refreshToken[1].storage, "cookie")]>>
       ELSE <<[tokenKey |-> DEFAULT_REFRESH_TOKEN_KEY, storage |-> "cookie"]>>]

\* The switch of the three storage functions: 'cookie' is also the default.
StorageOf(storage) ==
  IF storage \in {"localStorage", "sessionStorage"} THEN storage ELSE "cookie"

setTokenInStorage(st, token, storage, tokenKey) ==
  [st EXCEPT ![<<StorageOf(storage), tokenKey>>] = token]

\* getItem(tokenKey) || null, CookieManager.get(tokenKey)
getTokenFromStorage_cookieOnly(st, storage, tokenKey) == st[<<"cookie", tokenKey>>]
getTokenFromStorage(st, storage, tokenKey) == st[<<StorageOf(storage), tokenKey>>]

removeTokenFromStorage(st, storage, tokenKey) ==
  [st EXCEPT ![<<StorageOf(storage), tokenKey>>] = 0]

\* const tokenConfig = config || globalTokenConfig, and the slot it names.
AccessEntry(config, global) ==
  LET tokenConfig == IF config # <<>> THEN config[1] ELSE global
  IN  [tokenKey |-> OrDefault(tokenConfig.tokenKey, DEFAULT_ACCESS_TOKEN_KEY),
       storage |-> OrDefault(tokenConfig.storage, "cookie")]

\* const refreshConfig = config?.refreshToken || globalTokenConfig.refreshToken
refreshConfigOf_accessEntry(config, global) ==
  IF config # <<>> /\ config[1].refreshToken # <<>>
    THEN <<config[1].refreshToken[1]>>
    ELSE <<[tokenKey |-> global.tokenKey, storage |-> global.storage]>>
refreshConfigOf(config, global) ==
  IF config # <<>> /\ config[1].refreshToken # <<>>
    THEN config[1].refreshToken
    ELSE global.refreshToken

RefreshEntry(config, global) ==
  LET refreshConfig == refreshConfigOf(config, global)[1]
  IN  [tokenKey |-> OrDefault(refreshConfig.tokenKey, DEFAULT_REFRESH_TOKEN_KEY),
       storage |-> OrDefault(refreshConfig.storage, "cookie")]

setToken(st, global, token, config) ==
  LET e == AccessEntry(config, global)
  IN  setTokenInStorage(st, token, e.storage, e.tokenKey)

getToken(st, global, config) ==
  LET e == AccessEntry(config, global)
  IN  getTokenFromStorage(st, e.storage, e.tokenKey)

removeToken(st, global, config) ==
  LET e == AccessEntry(config, global)
  IN  removeTokenFromStorage(st, e.storage, e.tokenKey)

\* if (!refreshConfig) return;  (return null for getRefreshToken)
setRefreshToken(st, global, token, config) ==
  IF refreshConfigOf(config, global) = <<>> THEN st
  ELSE LET e == RefreshEntry(config, global)
       IN  setTokenInStorage(st, token, e.storage, e.tokenKey)

getRefreshToken(st, global, config) ==
  IF refreshConfigOf(config, global) = <<>> THEN 0
  ELSE LET e == RefreshEntry(config, global)
       IN  getTokenFromStorage(st, e.storage, e.tokenKey)

removeRefreshToken(st, global, config) ==
  IF refreshConfigOf(config, global) = <<>> THEN st
  ELSE LET e == RefreshEntry(config, global)
       IN  removeTokenFromStorage(st, e.storage, e.tokenKey)

VARIABLES
  req,           \* request id -> the request: its config, position and outcome
  failedQueue,   \* state.failedQueue: the parked requests, in push order
  isRefreshing,  \* state.isRefreshing
  refresh,       \* refresh id -> the refreshToken() promise chain
  store,         \* the access token getAccessToken() returns (0: none)
  rstore,        \* the stored refresh token (0: none)
  opts,          \* the service's options
  call,          \* a call of a service method that issues a request
  tokenStorage,      \* <<kind, key>> -> the token stored there (0: none)
  globalTokenConfig, \* token.ts: globalTokenConfig
  tokenService,      \* a service using the token store: its options.tokenConfig
  tokenOp,           \* the last call of a token function and its result
  build,             \* which BaseService source the program is built from
  sharedOptions,     \* base-service: sharedOptions (<<>>: null)
  service,           \* the last service construction and the service it made
  probe              \* a call of a pure function: its arguments and result

\* The token store, as the token functions and a service use it.
tokenVars == <<tokenStorage, globalTokenConfig, tokenService, tokenOp>>

\* Service construction, and the calls of the library's pure functions.
libVars == <<build, sharedOptions, service, probe>>

vars == <<req, failedQueue, isRefreshing, refresh, store, rstore, opts, call,
          tokenVars, libVars>>

\* A request's outcome as its caller sees it: k is "none" (pending), "ok",
\* "http" (rejected with the error of its n-th send) or "refresh" (rejected
\* with the error e of refresh e).
NoOut == [k |-> "none", e |-> 0, n |-> 0]

\* pc: "new" (not issued), "sending" (api(config) called, the request
\* interceptor not run yet), "dispatching" (the interceptor ran, the adapter
\* not called yet), "inflight", "queued", "resolved", "rejected".
\* retry is config._retry, pub is config.isPublic, auth is
\* config.headers.Authorization.  behind / via are the refresh the request was
\* queued behind / replayed by (0: none).
NewReq == [pc |-> "new", pub |-> FALSE, retry |-> FALSE, auth |-> NoHeader,
           sends |-> 0, out |-> NoOut, behind |-> 0, via |-> 0]

\* phase: "none", "pending", "settled" (resolved or rejected, no handler run
\* yet), "handled" (then / catch ran), "done" (finally ran).  by is the request
\* whose failure made the call; snap the requests queued when it settled; rt
\* the refreshToken of the result it resolved with (0: none); err the reason
\* of a rejection: the refresh's own id for an error, 0 for a falsy reason
\* (undefined, null, 0, '').
NewRefresh == [phase |-> "none", ok |-> FALSE, rt |-> 0, err |-> 0, by |-> 0,
               snap |-> {}, logouts |-> 0]

\* A call of a method of the service class: the methods decorated with
\* @Public(), whether the class is, the method called, the this.<verb>() it
\* makes, its own caller, the kind of module at the top of the stack and the
\* per-request isPublic; then the name
\* getCallingMethodName finds and the flag the request gets.
NoCall == [phase |-> "none", classPublic |-> FALSE, decorated |-> {}, method |-> <<>>,
           verb |-> <<>>, outer |-> <<>>, top |-> "cjs", isPublic |-> FALSE,
           name |-> <<>>, flag |-> FALSE]

\* The token store when the module is loaded: the storages are empty, no
\* service uses the store yet and no token function was called.
TokenIdle ==
  /\ tokenStorage = [s \in Slots |-> 0]
  /\ globalTokenConfig = DefaultTokenConfig
  /\ tokenService = [built |-> FALSE, tokenConfig |-> <<>>,
                     constructedUnder |-> DefaultTokenConfig]
  /\ tokenOp = [op |-> "none", config |-> <<>>, token |-> 0]

\* The three sources of BaseService in types.ts: the class built on
\* helpers.ts (112-287), the one with the interceptors inline and the
\* createService functions (313-576), and the one that merges sharedOptions in
\* the BaseService constructor (584-675).
Builds == {"helpers", "inline", "shared"}

NoService == [how |-> "none", threw |-> FALSE]
NoProbe == [fn |-> "none"]

\* Nothing configured or constructed through base-service yet.
LibIdle ==
  /\ build = "helpers"
  /\ sharedOptions = <<>>
  /\ service = NoService
  /\ probe = NoProbe

\* The state after `new BaseService(options)` (types.ts 137-188).
Init ==
  /\ req = [r \in Reqs |-> NewReq]
  /\ failedQueue = <<>>
  /\ isRefreshing = FALSE
  /\ refresh = [k \in Refs |-> NewRefresh]
  /\ store \in UserTokens
  /\ rstore = 0
  /\ opts \in Configs
  /\ call = NoCall
  /\ TokenIdle
  /\ LibIdle

InQueue(q, r) == \E i \in 1..Len(q) : q[i] = r

\* options.getAccessToken()
getAccessToken == store

\* Mutant of setAccessToken: the then handler does not store the token.
setAccessToken_notCalled(token) == store

\* options.setAccessToken(token): the default handler writes the location
\* getAccessToken reads; a "detached" custom handler writes somewhere else.
setAccessToken(token) ==
  IF opts.handlers = "default" THEN token ELSE store

\* Mutant of setRefreshTokenIfAny: setRefreshToken is called with whatever
\* the result holds.
setRefreshTokenIfAny_always(rt) == rt

\* if (refreshToken && options.setRefreshToken) options.setRefreshToken(refreshToken)
setRefreshTokenIfAny(rt) ==
  IF rt # 0 /\ opts.hasSetRefreshToken THEN rt ELSE rstore

\* Mutant of RequestInterceptorAuth: the `token &&` test is lost.
RequestInterceptorAuth_noTokenTest(isPublic, token, auth) ==
  IF isPublic THEN auth ELSE Bearer(token)

\* The request interceptor's header (helpers.ts 149-159).
RequestInterceptorAuth(isPublic, token, auth) ==
  IF isPublic THEN auth
  ELSE IF token # 0 THEN Bearer(token)
  ELSE auth

\* Mutant of shouldRetry: the `!config._retry` test is lost.
shouldRetry_ignoresRetryFlag(status, retry) ==
  /\ status # 0
  /\ status \in opts.retryOnStatusCodes

\* Mutant of shouldRetry: any response status is retried.
shouldRetry_anyStatus(status, retry) ==
  /\ status # 0
  /\ ~retry

\* shouldRetry (helpers.ts 167-170)
shouldRetry(status, retry) ==
  /\ status # 0
  /\ status \in opts.retryOnStatusCodes
  /\ ~retry

\* Mutant of mayStartRefresh: the isRefreshing test is lost.
mayStartRefresh_always == TRUE

\* if (!state.isRefreshing) (helpers.ts 178)
mayStartRefresh == ~isRefreshing

\* Mutant of processQueueInternal: only the head of the queue is handled.
processQueueInternal_headOnly(q, rq, error, token, k) ==
  [r \in Reqs |->
     IF q # <<>> /\ q[1] = r
     THEN IF error # 0
          THEN [rq[r] EXCEPT !.pc = "rejected",
                             !.out = [k |-> "refresh", e |-> error, n |-> rq[r].sends]]
          ELSE [rq[r] EXCEPT !.auth = Bearer(token), !.pc = "sending", !.via = k]
     ELSE rq[r]]

\* Mutant of processQueueInternal: the Authorization header is not set.
processQueueInternal_keepsHeader(q, rq, error, token, k) ==
  [r \in Reqs |->
     IF InQueue(q, r)
     THEN IF error # 0
          THEN [rq[r] EXCEPT !.pc = "rejected",
                             !.out = [k |-> "refresh", e |-> error, n |-> rq[r].sends]]
          ELSE [rq[r] EXCEPT !.pc = "sending", !.via = k]
     ELSE rq[r]]

\* processQueueInternal (helpers.ts 107-126): forEach over the queue.  error = 0
\* stands for null; k names the refresh whose handler makes the call.
processQueueInternal(q, rq, error, token, k) ==
  [r \in Reqs |->
     IF InQueue(q, r)
     THEN IF error # 0
          THEN [rq[r] EXCEPT !.pc = "rejected",
                             !.out = [k |-> "refresh", e |-> error, n |-> rq[r].sends]]
          ELSE [rq[r] EXCEPT !.auth = Bearer(token), !.pc = "sending", !.via = k]
     ELSE rq[r]]

\* The refresh chain whose finally handler has not run yet (0: none).
Current ==
  IF \E k \in Refs : refresh[k].phase \notin {"none", "done"}
  THEN CHOOSE k \in Refs : refresh[k].phase \notin {"none", "done"}
  ELSE 0

\* The id the next refreshToken() call gets (0: the model's bound is reached).
NextRef ==
  IF \E k \in Refs : refresh[k].phase = "none"
  THEN CHOOSE k \in Refs :
         refresh[k].phase = "none" /\ \A j \in Refs : j < k => refresh[j].phase # "none"
  ELSE 0

\* if (!config) return Promise.reject(error); ... if (shouldRetry &&
\* options.refreshToken) (helpers.ts 164-172)
entersFlow(r, f) ==
  f.hasConfig /\ shouldRetry(f.status, req[r].retry) /\ opts.hasRefreshToken

\* The response error handler (helpers.ts 163-199) applied to the failure f of
\* in-flight request r: the values it leaves in req, failedQueue, isRefreshing
\* and refresh.
onRejected(r, f) ==
  IF entersFlow(r, f)
  THEN IF mayStartRefresh
       THEN [req |-> [req EXCEPT ![r].retry = TRUE, ![r].pc = "queued",
                                 ![r].behind = NextRef],
             failedQueue |-> Append(failedQueue, r),
             isRefreshing |-> TRUE,
             refresh |-> [k \in Refs |->
                            IF k = NextRef
                            THEN [refresh[k] EXCEPT !.phase = "pending", !.by = r]
                            ELSE refresh[k]]]
       ELSE [req |-> [req EXCEPT ![r].retry = TRUE, ![r].pc = "queued",
                                 ![r].behind = Current],
             failedQueue |-> Append(failedQueue, r),
             isRefreshing |-> isRefreshing,
             refresh |-> refresh]
  ELSE [req |-> [req EXCEPT ![r].pc = "rejected",
                   ![r].out = [k |-> "http", e |-> 0, n |-> req[r].sends]],
        failedQueue |-> failedQueue,
        isRefreshing |-> isRefreshing,
        refresh |-> refresh]

\* BaseService.request up to the call of this.api[method] (types.ts 190-226):
\* the caller issues request r; pub is finalIsPublic.  The request
\* interceptor has not run when the call returns its promise.
Request(r, pub) ==
  /\ req[r].pc = "new"
  /\ \A q \in Reqs : q < r => req[q].pc # "new"
  /\ req' = [req EXCEPT ![r].pc = "sending", ![r].pub = pub]
  /\ UNCHANGED <<failedQueue, isRefreshing, refresh, store, rstore, opts, call, tokenVars, libVars>>

\* The request interceptor (helpers.ts 149-159) runs, in a later turn than
\* the call that made the request (this.api[method] of BaseService.request,
\* or the re-send api(config) of a replayed request): it reads the token and
\* writes the header.  The request is not with the adapter yet.
Intercept(r) ==
  /\ req[r].pc = "sending"
  /\ req' = [req EXCEPT
       ![r].auth = RequestInterceptorAuth(req[r].pub, getAccessToken, req[r].auth),
       ![r].pc = "dispatching"]
  /\ UNCHANGED <<failedQueue, isRefreshing, refresh, store, rstore, opts, call, tokenVars, libVars>>

\* In the promise reaction after the interceptor's, the request is handed to
\* the adapter with the header the interceptor left; the store is not read
\* again.
Dispatch(r) ==
  /\ req[r].pc = "dispatching"
  /\ req' = [req EXCEPT ![r].pc = "inflight", ![r].sends = @ + 1]
  /\ UNCHANGED <<failedQueue, isRefreshing, refresh, store, rstore, opts, call, tokenVars, libVars>>

\* A success response: (res) => res (helpers.ts 162).
RespondOk(r) ==
  /\ req[r].pc = "inflight"
  /\ req' = [req EXCEPT ![r].pc = "resolved",
                        ![r].out = [k |-> "ok", e |-> 0, n |-> req[r].sends]]
  /\ UNCHANGED <<failedQueue, isRefreshing, refresh, store, rstore, opts, call, tokenVars, libVars>>

\* A failure response reaches the response error handler (helpers.ts 163-199).
\* A failure that would start a refresh beyond MaxRefresh is not delivered.
RespondFail(r, f) ==
  /\ req[r].pc = "inflight"
  /\ (entersFlow(r, f) /\ mayStartRefresh) => NextRef # 0
  /\ req' = onRejected(r, f).req
  /\ failedQueue' = onRejected(r, f).failedQueue
  /\ isRefreshing' = onRejected(r, f).isRefreshing
  /\ refresh' = onRejected(r, f).refresh
  /\ UNCHANGED <<store, rstore, opts, call, tokenVars, libVars>>

\* The promise refreshToken() returned resolves, with the result
\* {accessToken: AccessOf(k), refreshToken: rt} (rt = 0: none).
RefreshResolve(k, rt) ==
  /\ refresh[k].phase = "pending"
  /\ refresh' = [refresh EXCEPT ![k].phase = "settled", ![k].ok = TRUE,
                   ![k].rt = rt,
                   ![k].snap = {r \in Reqs : InQueue(failedQueue, r)}]
  /\ UNCHANGED <<req, failedQueue, isRefreshing, store, rstore, opts, call, tokenVars, libVars>>

\* The promise refreshToken() returned rejects, with the error named k or
\* with a falsy reason (err = 0).
RefreshReject(k, err) ==
  /\ refresh[k].phase = "pending"
  /\ refresh' = [refresh EXCEPT ![k].phase = "settled", ![k].ok = FALSE,
                   ![k].err = err,
                   ![k].snap = {r \in Reqs : InQueue(failedQueue, r)}]
  /\ UNCHANGED <<req, failedQueue, isRefreshing, store, rstore, opts, call, tokenVars, libVars>>

\* .then(({ accessToken, refreshToken }) => ...) (helpers.ts 181-188)
ThenHandler(k) ==
  /\ refresh[k].phase = "settled" /\ refresh[k].ok
  /\ store' = setAccessToken(AccessOf(k))
  /\ rstore' = setRefreshTokenIfAny(refresh[k].rt)
  /\ req' = processQueueInternal(failedQueue, req, 0, AccessOf(k), k)
  /\ failedQueue' = <<>>
  /\ refresh' = [refresh EXCEPT ![k].phase = "handled"]
  /\ UNCHANGED <<isRefreshing, opts, call, tokenVars, libVars>>

\* .catch((err) => ...) (helpers.ts 189-193): processQueueInternal gets the
\* reason and no token; with a falsy reason its `if (error)` fails and the
\* queued requests are sent again.
CatchHandler(k) ==
  /\ refresh[k].phase = "settled" /\ ~refresh[k].ok
  /\ req' = processQueueInternal(failedQueue, req, refresh[k].err, Undefined, k)
  /\ failedQueue' = <<>>
  /\ refresh' = [refresh EXCEPT ![k].phase = "handled", ![k].logouts = @ + 1]
  /\ UNCHANGED <<isRefreshing, store, rstore, opts, call, tokenVars, libVars>>

\* .finally(() => (state.isRefreshing = false)) (helpers.ts 194)
Finally(k) ==
  /\ refresh[k].phase = "handled"
  /\ isRefreshing' = FALSE
  /\ refresh' = [refresh EXCEPT ![k].phase = "done"]
  /\ UNCHANGED <<req, failedQueue, store, rstore, opts, call, tokenVars, libVars>>

\* The application calls setToken(t) / removeToken() (token.ts 123-142).
UserSetToken(t) ==
  /\ store # t
  /\ store' = t
  /\ UNCHANGED <<req, failedQueue, isRefreshing, refresh, rstore, opts, call, tokenVars, libVars>>

\* The application calls setRefreshToken(t) / removeRefreshToken()
\* (token.ts 144-169).
UserSetRefreshToken(t) ==
  /\ rstore # t
  /\ rstore' = t
  /\ UNCHANGED <<req, failedQueue, isRefreshing, refresh, store, opts, call, tokenVars, libVars>>

Next ==
  \/ \E r \in Reqs, pub \in BOOLEAN : Request(r, pub)
  \/ \E r \in Reqs : Intercept(r)
  \/ \E r \in Reqs : Dispatch(r)
  \/ \E r \in Reqs : RespondOk(r)
  \/ \E r \in Reqs, f \in Failures : RespondFail(r, f)
  \/ \E k \in Refs : \E rt \in {0, RefreshOf(k)} : RefreshResolve(k, rt)
  \/ \E k \in Refs : \E err \in {0, k} : RefreshReject(k, err)
  \/ \E k \in Refs : ThenHandler(k)
  \/ \E k \in Refs : CatchHandler(k)
  \/ \E k \in Refs : Finally(k)
  \/ \E t \in UserTokens : UserSetToken(t)
  \/ \E t \in UserTokens : UserSetRefreshToken(t)

Spec == Init /\ [][Next]_vars

\* The calls explored by SpecCaller.
CallInputs ==
  {[NoCall EXCEPT !.phase = "called", !.classPublic = c, !.decorated = d,
                  !.method = m, !.verb = v, !.outer = o, !.isPublic = p,
                  !.top = t] :
     c \in BOOLEAN, d \in SUBSET MethodNames, m \in MethodNames, v \in Verbs,
     o \in MethodNames
            \cup { <<"m", "a", "i", "n">>,
                   <<"O", "b", "j", "e", "c", "t", ".", "<", "a", "n", "o", "n", "y", "m", "o", "u", "s", ">">> },
     p \in BOOLEAN, t \in {"cjs", "esm"}}

InitCaller ==
  /\ req = [r \in Reqs |-> NewReq]
  /\ failedQueue = <<>>
  /\ isRefreshing = FALSE
  /\ refresh = [k \in Refs |-> NewRefresh]
  /\ store = 0
  /\ rstore = 0
  /\ opts = [retryOnStatusCodes |-> DefaultRetryCodes, hasRefreshToken |-> FALSE,
             hasSetRefreshToken |-> TRUE, handlers |-> "default"]
  /\ call \in CallInputs
  /\ TokenIdle
  /\ LibIdle

\* BaseService.request up to finalIsPublic (types.ts 213-214): the method
\* called this.<verb>(config), which called this.request(...).
RequestFromMethod ==
  /\ call.phase = "called"
  /\ call' = [call EXCEPT
       !.phase = "flagged",
       !.name = getCallingMethodName(StackOf(call.method, call.verb, call.outer, call.top)),
       !.flag = finalIsPublic(call.isPublic,
                  [classPublic |-> call.classPublic, metadata |-> call.decorated],
                  StackOf(call.method, call.verb, call.outer, call.top))]
  /\ UNCHANGED <<req, failedQueue, isRefreshing, refresh, store, rstore, opts, tokenVars, libVars>>

NextCaller == RequestFromMethod

\* getCallingMethodName / isCallingMethodPublic applied to every call.
SpecCaller == InitCaller /\ [][NextCaller]_vars

(***************************************************************************)
(* The token functions called by the application and by a service with the *)
(* default token handlers.                                                 *)
(***************************************************************************)
\* The interceptor state machine and the caller of SpecCaller, at rest.
coreVars == <<req, failedQueue, isRefreshing, refresh, store, rstore, opts, call>>

CoreIdle ==
  /\ req = [r \in Reqs |-> NewReq]
  /\ failedQueue = <<>>
  /\ isRefreshing = FALSE
  /\ refresh = [k \in Refs |-> NewRefresh]
  /\ store = 0
  /\ rstore = 0
  /\ opts = [retryOnStatusCodes |-> DefaultRetryCodes, hasRefreshToken |-> FALSE,
             hasSetRefreshToken |-> TRUE, handlers |-> "default"]
  /\ call = NoCall

InitToken ==
  /\ CoreIdle
  /\ TokenIdle
  /\ LibIdle

ConfigureToken(config) ==
  /\ globalTokenConfig' = configureToken(config)
  /\ tokenOp' = [op |-> "configureToken", config |-> <<config>>, token |-> 0]
  /\ UNCHANGED <<coreVars, libVars, tokenStorage, tokenService>>

SetToken(token, config) ==
  /\ tokenStorage' = setToken(tokenStorage, globalTokenConfig, token, config)
  /\ tokenOp' = [op |-> "setToken", config |-> config, token |-> token]
  /\ UNCHANGED <<coreVars, libVars, globalTokenConfig, tokenService>>

GetToken(config) ==
  /\ tokenOp' = [op |-> "getToken", config |-> config,
                 token |-> getToken(tokenStorage, globalTokenConfig, config)]
  /\ UNCHANGED <<coreVars, libVars, tokenStorage, globalTokenConfig, tokenService>>

RemoveToken(config) ==
  /\ tokenStorage' = removeToken(tokenStorage, globalTokenConfig, config)
  /\ tokenOp' = [op |-> "removeToken", config |-> config, token |-> 0]
  /\ UNCHANGED <<coreVars, libVars, globalTokenConfig, tokenService>>

SetRefreshToken(token, config) ==
  /\ tokenStorage' = setRefreshToken(tokenStorage, globalTokenConfig, token, config)
  /\ tokenOp' = [op |-> "setRefreshToken", config |-> config, token |-> token]
  /\ UNCHANGED <<coreVars, libVars, globalTokenConfig, tokenService>>

GetRefreshToken(config) ==
  /\ tokenOp' = [op |-> "getRefreshToken", config |-> config,
                 token |-> getRefreshToken(tokenStorage, globalTokenConfig, config)]
  /\ UNCHANGED <<coreVars, libVars, tokenStorage, globalTokenConfig, tokenService>>

RemoveRefreshToken(config) ==
  /\ tokenStorage' = removeRefreshToken(tokenStorage, globalTokenConfig, config)
  /\ tokenOp' = [op |-> "removeRefreshToken", config |-> config, token |-> 0]
  /\ UNCHANGED <<coreVars, libVars, globalTokenConfig, tokenService>>

\* new BaseService(options) without custom token handlers: the default
\* handlers close over options.tokenConfig (types.ts 152-157).
ConstructService(tokenConfig) ==
  /\ ~tokenService.built
  /\ tokenService' = [built |-> TRUE, tokenConfig |-> tokenConfig,
                      constructedUnder |-> globalTokenConfig]
  /\ tokenOp' = [op |-> "construct", config |-> tokenConfig, token |-> 0]
  /\ UNCHANGED <<coreVars, libVars, tokenStorage, globalTokenConfig>>

\* getAccessToken: () => getToken(options.tokenConfig)
serviceGetAccessToken_atConstruction(st, global, svc) ==
  getToken(st, svc.constructedUnder, svc.tokenConfig)
serviceGetAccessToken(st, global, svc) ==
  getToken(st, global, svc.tokenConfig)

\* setAccessToken: (token) => setToken(token, options.tokenConfig)
serviceSetAccessToken(st, global, svc, token) ==
  setToken(st, global, token, svc.tokenConfig)

\* The request interceptor of the service reads the token for a request
\* (helpers.ts 153-157); token is the t of `Bearer t`, 0 when no header is set.
ServiceAttach ==
  /\ tokenService.built
  /\ tokenOp' = [op |-> "attach", config |-> tokenService.tokenConfig,
                 token |-> serviceGetAccessToken(tokenStorage, globalTokenConfig,
                                                 tokenService)]
  /\ UNCHANGED <<coreVars, libVars, tokenStorage, globalTokenConfig, tokenService>>

\* setRefreshToken: (token) => setRefreshToken(token, options.tokenConfig)
serviceSetRefreshToken(st, global, svc, token) ==
  setRefreshToken(st, global, token, svc.tokenConfig)

\* The then handler of a refresh stores the new access token and then, if the
\* result holds one, the new refresh token (helpers.ts 182-185); refreshToken
\* is 0 for a result without one.
ServiceRefreshed(accessToken, refreshToken) ==
  /\ tokenService.built
  /\ tokenStorage' =
       LET st == serviceSetAccessToken(tokenStorage, globalTokenConfig,
                                       tokenService, accessToken)
       IN  IF refreshToken # 0
             THEN serviceSetRefreshToken(st, globalTokenConfig, tokenService,
                                         refreshToken)
             ELSE st
  /\ tokenOp' = [op |-> "refreshed", config |-> tokenService.tokenConfig,
                 token |-> accessToken, refresh |-> refreshToken]
  /\ UNCHANGED <<coreVars, libVars, globalTokenConfig, tokenService>>

NextToken ==
  \/ \E c \in TokenConfigs : ConfigureToken(c)
  \/ \E t \in Tokens, c \in OptTokenConfigs : SetToken(t, c)
  \/ \E c \in OptTokenConfigs : GetToken(c)
  \/ \E c \in OptTokenConfigs : RemoveToken(c)
  \/ \E t \in Tokens, c \in OptTokenConfigs : SetRefreshToken(t, c)
  \/ \E c \in OptTokenConfigs : GetRefreshToken(c)
  \/ \E c \in OptTokenConfigs : RemoveRefreshToken(c)
  \/ \E tc \in {<<>>, <<[tokenKey |-> "", storage |-> "localStorage",
                           refreshToken |-> <<>>]>>} : ConstructService(tc)
  \/ ServiceAttach
  \/ \E t \in Tokens, rt \in {0} \cup Tokens : ServiceRefreshed(t, rt)

SpecToken == InitToken /\ [][NextToken]_vars

(***************************************************************************)
(* The request path: buildUrl (helpers.ts 14-30) and the inline buildUrl   *)
(* of the older BaseService (types.ts 440-443).  Strings are sequences of  *)
(* characters; an optional string is a sequence of length 0 or 1.          *)
(***************************************************************************)
S_slash == <<"/">>

\* endpoint.replace(/^\/+/, '')
RECURSIVE replaceLeadingSlashes(_)
replaceLeadingSlashes_firstOnly(endpoint) ==
  IF endpoint # <<>> /\ Head(endpoint) = "/" THEN Tail(endpoint) ELSE endpoint
replaceLeadingSlashes(endpoint) ==
  IF endpoint # <<>> /\ Head(endpoint) = "/"
    THEN replaceLeadingSlashes(Tail(endpoint))
    ELSE endpoint

\* parts.join('/')
RECURSIVE join(_, _)
join(parts, sep) ==
  IF parts = <<>> THEN <<>>
  ELSE IF Len(parts) = 1 THEN parts[1]
  ELSE parts[1] \o sep \o join(Tail(parts), sep)

\* if (x) parts.push(x)
pushIf(parts, x) == IF x # <<>> THEN Append(parts, x) ELSE parts

buildUrl(serviceName, version, endpoint, prefix) ==
  LET cleanEndpoint == replaceLeadingSlashes(endpoint)
      parts == pushIf(pushIf(pushIf(pushIf(<<>>, prefix), serviceName), version),
                      cleanEndpoint)
  IN  join(parts, S_slash)

\* version ?? this.options.version
versionOr(version, optionsVersion) ==
  IF version = <<>> THEN optionsVersion ELSE version[1]

\* private buildUrl(endpoint, version) of the older BaseService.
BaseService_buildUrl(serviceName, optionsVersion, endpoint, version) ==
  serviceName \o S_slash \o versionOr(version, optionsVersion) \o S_slash
    \o replaceLeadingSlashes(endpoint)

\* The service names, versions and endpoints of the requests explored.
UrlInputs ==
  {[fn |-> "url", phase |-> "called", serviceName |-> n, optionsVersion |-> o,
    version |-> v, endpoint |-> e, url |-> <<>>] :
     n \in {<<>>, <<"a", "p", "i">>, <<"o", "r", "g">>},
     o \in {<<>>, <<"v", "1">>},
     v \in {<<>>, << <<>> >>, << <<"v", "2">> >>},
     e \in { <<>>, <<"/">>, <<"m", "e">>, <<"/", "m", "e">>, <<"/", "/", "m", "e">>,
             <<"m", "e", "/">>, <<"/", "a", "/", "b">>, <<"/", "/", "/">> }}

InitUrl ==
  /\ CoreIdle
  /\ TokenIdle
  /\ build \in {"helpers", "inline"}
  /\ sharedOptions = <<>>
  /\ service = NoService
  /\ probe \in UrlInputs

\* const url = buildUrl(this.options.serviceName, version ?? this.options.version,
\* endpoint) in BaseService.request (types.ts 204).
RequestUrl ==
  /\ build = "helpers" /\ probe.phase = "called"
  /\ probe' = [probe EXCEPT !.phase = "built",
                 !.url = buildUrl(probe.serviceName,
                                  versionOr(probe.version, probe.optionsVersion),
                                  probe.endpoint, <<>>)]
  /\ UNCHANGED <<coreVars, tokenVars, build, sharedOptions, service>>

\* const url = this.buildUrl(endpoint, version) (types.ts 478).
RequestUrlInline ==
  /\ build = "inline" /\ probe.phase = "called"
  /\ probe' = [probe EXCEPT !.phase = "built",
                 !.url = BaseService_buildUrl(probe.serviceName, probe.optionsVersion,
                                              probe.endpoint, probe.version)]
  /\ UNCHANGED <<coreVars, tokenVars, build, sharedOptions, service>>

NextUrl == RequestUrl \/ RequestUrlInline

SpecUrl == InitUrl /\ [][NextUrl]_vars

(***************************************************************************)
(* Service construction: configureBaseService, BaseService, ApiService,    *)
(* createService and createServiceWithTokens (types.ts).  An options       *)
(* object is a function from the keys it holds to their values; baseURL,   *)
(* the token handlers, logout and transformError are left out.             *)
(***************************************************************************)
PrecedenceKeys == {"serviceName", "version", "retryOnStatusCodes", "useMock", "mockDelay"}

\* The built-in defaults of the three constructors.
Defaults(b) ==
  IF b = "shared"
    THEN [serviceName |-> "", version |-> "", useMock |-> FALSE, mockDelay |-> 1000,
          isPublic |-> FALSE, retryOnStatusCodes |-> DefaultRetryCodes]
  ELSE IF b = "helpers"
    THEN [serviceName |-> "api", version |-> "v1", useMock |-> FALSE,
          mockDelay |-> 1000, isPublic |-> FALSE,
          retryOnStatusCodes |-> DefaultRetryCodes]
  ELSE [serviceName |-> "api", version |-> "v1", useMock |-> FALSE,
        mockDelay |-> 1000, retryOnStatusCodes |-> DefaultRetryCodes]

\* The values configureBaseService is called with, and those a constructor or
\* a create function is; refreshToken stands for a function being given.
\* The key sets of the options objects explored: every key is found present
\* and absent in the shared and in the own options, in all four combinations.
KeySets ==
  { {}, {"serviceName", "useMock", "isPublic", "refreshToken"},
    {"version", "retryOnStatusCodes", "mockDelay"},
    PrecedenceKeys \cup {"isPublic", "refreshToken"} }
SharedInputs ==
  LET values == [serviceName |-> "main", version |-> "v2",
                 retryOnStatusCodes |-> {401, 503}, useMock |-> TRUE,
                 mockDelay |-> 500, isPublic |-> TRUE, refreshToken |-> TRUE]
  IN  {[k \in ks |-> values[k]] : ks \in KeySets}
OwnInputs ==
  LET values == [serviceName |-> "users", version |-> "v3",
                 retryOnStatusCodes |-> {503}, useMock |-> FALSE,
                 mockDelay |-> 0, isPublic |-> TRUE, refreshToken |-> TRUE]
  IN  {[k \in ks |-> values[k]] : ks \in KeySets}

\* { ...a, ...b }
spread(a, b) ==
  [k \in DOMAIN a \cup DOMAIN b |-> IF k \in DOMAIN b THEN b[k] ELSE a[k]]

\* ...sharedOptions: spreading null adds nothing.
sharedObject(shared) == IF shared = <<>> THEN [k \in {} |-> 0] ELSE shared[1]

\* if (!sharedOptions) throw new Error(...)
sharedMissing_never(shared) == FALSE
sharedMissing(shared) == shared = <<>>

\* if (!this.options.isPublic) setupInterceptors(...); the inline BaseService
\* calls this.setupInterceptors() unconditionally.
installsInterceptors_always(b, options) == TRUE
installsInterceptors(b, options) ==
  IF b = "inline" THEN TRUE
  ELSE ~options["isPublic"]

\* new BaseService(options): what the constructor leaves, or that it threw.
BaseServiceConstructor(b, shared, options) ==
  IF b = "shared" /\ sharedMissing(shared)
    THEN [threw |-> TRUE]
  ELSE LET merged == IF b = "shared"
                       THEN spread(spread(Defaults(b), sharedObject(shared)), options)
                       ELSE spread(Defaults(b), options)
       IN  [threw |-> FALSE, options |-> merged,
            interceptors |-> installsInterceptors(b, merged)]

\* new ApiService(overrides)
ApiServiceConstructor(b, shared, overrides) ==
  IF b = "shared" THEN BaseServiceConstructor(b, shared, overrides)
  ELSE IF sharedMissing(shared) THEN [threw |-> TRUE]
  ELSE BaseServiceConstructor(b, shared, spread(sharedObject(shared), overrides))

\* createService(overrides) and createServiceWithTokens(overrides)
createService(b, shared, overrides) ==
  IF sharedMissing(shared) THEN [threw |-> TRUE]
  ELSE BaseServiceConstructor(b, shared, spread(sharedObject(shared), overrides))

InitService ==
  /\ CoreIdle
  /\ TokenIdle
  /\ build \in Builds
  /\ sharedOptions = <<>>
  /\ service = NoService
  /\ probe = NoProbe

ConfigureBaseService(options) ==
  /\ sharedOptions' = <<options>>
  /\ UNCHANGED <<coreVars, tokenVars, build, service, probe>>

\* The options setupInterceptors gets from the constructor (types.ts 175-186);
\* none of the options explored names setRefreshToken, so the default
\* handler is there.
InterceptorOptions(made) ==
  IF ~made.threw /\ made.interceptors
    THEN [retryOnStatusCodes |-> made.options["retryOnStatusCodes"],
          hasRefreshToken |-> "refreshToken" \in DOMAIN made.options,
          hasSetRefreshToken |-> TRUE,
          handlers |-> "default"]
    ELSE opts

\* A construction: how the service is made, with which argument, under which
\* sharedOptions, and what came of it.
Construct(how, arg, made) ==
  /\ service.how = "none"
  /\ service' = [how |-> how, arg |-> arg, sharedAt |-> sharedOptions,
                 threw |-> made.threw, made |-> made, sent |-> <<>>]
  /\ opts' = InterceptorOptions(made)
  /\ UNCHANGED <<req, failedQueue, isRefreshing, refresh, store, rstore, call,
                 tokenVars, build, sharedOptions, probe>>

NewBaseService(options) ==
  Construct("BaseService", options,
            BaseServiceConstructor(build, sharedOptions, options))

NewApiService(overrides) ==
  Construct("ApiService", overrides,
            ApiServiceConstructor(build, sharedOptions, overrides))

CreateService(overrides) ==
  /\ build = "inline"
  /\ Construct("createService", overrides,
               createService(build, sharedOptions, overrides))

CreateServiceWithTokens(overrides) ==
  /\ build = "inline"
  /\ Construct("createServiceWithTokens", overrides,
               createService(build, sharedOptions, overrides))

\* The constructed service makes request 1: BaseService.request up to and
\* with the call of this.api[method], which returns a promise the request
\* awaits.  With a request interceptor installed axios defers the dispatch to
\* a later turn; without interceptors this.api[method] hands the request to
\* the adapter before it returns, with no Authorization header.  sent keeps
\* the token the store held when the request went out and, later, the
\* failure the request met.
ServiceRequest(pub) ==
  /\ service.how # "none" /\ ~service.threw
  /\ req[1].pc = "new"
  /\ IF service.made.interceptors
       THEN /\ req' = [req EXCEPT ![1].pc = "sending", ![1].pub = pub]
            /\ service' = service
       ELSE /\ req' = [req EXCEPT ![1].pc = "inflight", ![1].pub = pub,
                                  ![1].sends = 1]
            /\ service' = [service EXCEPT
                             !.sent = <<[token |-> store, failure |-> <<>>]>>]
  /\ UNCHANGED <<failedQueue, isRefreshing, refresh, store, rstore, opts, call,
                 tokenVars, build, sharedOptions, probe>>

\* In a later turn the request interceptor of a service that has one runs
\* (the inline one has no isPublic test): it reads the token and writes the
\* header.
ServiceIntercept ==
  /\ service.how # "none" /\ ~service.threw
  /\ service.made.interceptors
  /\ req[1].pc = "sending"
  /\ req' = [req EXCEPT
       ![1].pc = "dispatching",
       ![1].auth = RequestInterceptorAuth(req[1].pub /\ build # "inline",
                                          getAccessToken, NoHeader)]
  /\ UNCHANGED <<failedQueue, isRefreshing, refresh, store, rstore, opts, call,
                 tokenVars, libVars>>

\* In the promise reaction after the interceptor's the request goes to the
\* adapter, with the header the interceptor left.
ServiceDispatch ==
  /\ service.how # "none" /\ ~service.threw
  /\ req[1].pc = "dispatching"
  /\ req' = [req EXCEPT ![1].pc = "inflight", ![1].sends = 1]
  /\ service' = [service EXCEPT !.sent = <<[token |-> store, failure |-> <<>>]>>]
  /\ UNCHANGED <<failedQueue, isRefreshing, refresh, store, rstore, opts, call,
                 tokenVars, build, sharedOptions, probe>>

\* The adapter answers with the failure f: the response error handler, when
\* installed, parks the request and calls refreshToken() or rejects it;
\* without interceptors the request is rejected.
ServiceRespondFail(f) ==
  /\ service.how # "none" /\ ~service.threw
  /\ req[1].pc = "inflight"
  /\ LET handled == IF service.made.interceptors
                      THEN onRejected(1, f)
                      ELSE [req |-> [req EXCEPT ![1].pc = "rejected",
                                       ![1].out = [k |-> "http", e |-> 0, n |-> 1]],
                            failedQueue |-> failedQueue,
                            isRefreshing |-> isRefreshing,
                            refresh |-> refresh]
     IN  /\ req' = handled.req
         /\ failedQueue' = handled.failedQueue
         /\ isRefreshing' = handled.isRefreshing
         /\ refresh' = handled.refresh
  /\ service' = [service EXCEPT !.sent[1].failure = <<f>>]
  /\ UNCHANGED <<store, rstore, opts, call, tokenVars, build, sharedOptions, probe>>

NextService ==
  \/ \E o \in SharedInputs : ConfigureBaseService(o)
  \/ \E o \in OwnInputs : NewBaseService(o)
  \/ \E o \in OwnInputs : NewApiService(o)
  \/ \E o \in OwnInputs : CreateService(o)
  \/ \E o \in OwnInputs : CreateServiceWithTokens(o)
  \/ \E t \in UserTokens : UserSetToken(t)
  \/ \E pub \in BOOLEAN : ServiceRequest(pub)
  \/ ServiceIntercept
  \/ ServiceDispatch
  \/ \E f \in Failures : ServiceRespondFail(f)

SpecService == InitService /\ [][NextService]_vars

(***************************************************************************)
(* Requests sent with one expired token: a service with the default token  *)
(* handlers and a refreshToken handler, whose store holds a token the      *)
(* server answers 401 to; every request is sent while the store still      *)
(* holds it, and the application does not touch the store.                 *)
(***************************************************************************)
InitExpired ==
  /\ req = [r \in Reqs |-> NewReq]
  /\ failedQueue = <<>>
  /\ isRefreshing = FALSE
  /\ refresh = [k \in Refs |-> NewRefresh]
  /\ store = 1
  /\ rstore = 0
  /\ opts = [retryOnStatusCodes |-> DefaultRetryCodes, hasRefreshToken |-> TRUE,
             hasSetRefreshToken |-> TRUE, handlers |-> "default"]
  /\ call = NoCall
  /\ TokenIdle
  /\ LibIdle

\* A first send goes out while the store still holds the expired token, a
\* re-send at any time.
NextExpired ==
  \/ \E r \in Reqs : Request(r, FALSE)
  \/ \E r \in Reqs : (req[r].sends = 0 => store = 1) /\ Intercept(r)
  \/ \E r \in Reqs : Dispatch(r)
  \/ \E r \in Reqs : RespondOk(r)
  \/ \E r \in Reqs, f \in Failures : RespondFail(r, f)
  \/ \E k \in Refs : \E rt \in {0, RefreshOf(k)} : RefreshResolve(k, rt)
  \/ \E k \in Refs : \E err \in {0, k} : RefreshReject(k, err)
  \/ \E k \in Refs : ThenHandler(k)
  \/ \E k \in Refs : CatchHandler(k)
  \/ \E k \in Refs : Finally(k)

SpecExpired == InitExpired /\ [][NextExpired]_vars

(***************************************************************************)
(* The @Public() decorator on classes and methods (decorators.ts 8-58).    *)
(* Three service classes, A and B extending Base; each prototype holds its *)
(* own PUBLIC_CLASS_KEY and PUBLIC_METADATA_KEY properties (<<>>: none),   *)
(* and a property read walks the prototype chain.  A class definition      *)
(* applies its method decorators, then its class decorator.                *)
(***************************************************************************)
ServiceClasses == {"Base", "A", "B"}

\* The prototype chain of an instance of class c.
protoChain(c) == IF c = "Base" THEN <<"Base">> ELSE <<c, "Base">>

\* The prototype on the chain of c that holds the property (<<>>: none).
holderOf(own, c) ==
  LET chain == protoChain(c)
      found == {i \in 1..Len(chain) : own[chain[i]] # <<>>}
  IN  IF found = {} THEN <<>>
      ELSE <<chain[CHOOSE i \in found : \A j \in found : i <= j]>>

\* target[KEY] for an instance or the prototype of class c
protoGet(own, c) == IF holderOf(own, c) = <<>> THEN <<>> ELSE own[holderOf(own, c)[1]]

\* Public() on a method: if (!target[KEY]) target[KEY] = {};
\* target[KEY][propertyKey] = true
PublicMethod(meta, c, m) ==
  LET made == IF protoGet(meta, c) = <<>> THEN [meta EXCEPT ![c] = <<{}>>] ELSE meta
      holder == holderOf(made, c)[1]
  IN  [made EXCEPT ![holder] = <<made[holder][1] \cup {m}>>]

RECURSIVE PublicMethods(_, _, _)
PublicMethods(meta, c, ms) ==
  IF ms = {} THEN meta
  ELSE LET m == CHOOSE x \in ms : TRUE
       IN  PublicMethods(PublicMethod(meta, c, m), c, ms \ {m})

\* What isPublicMethod and getPublicMethods read from an instance of class c.
targetOf(p, c) ==
  [classPublic |-> protoGet(p.classKey, c) = <<TRUE>>,
   metadata |-> IF protoGet(p.meta, c) = <<>> THEN {} ELSE protoGet(p.meta, c)[1]]

\* getPublicMethods (decorators.ts 41-58): the own functions of the
\* prototype for a public class, else the keys of the metadata.
getPublicMethods(p, c) ==
  IF targetOf(p, c).classPublic THEN p.classes[c].defines
  ELSE targetOf(p, c).metadata

InitDecorators ==
  /\ CoreIdle
  /\ TokenIdle
  /\ build = "helpers"
  /\ sharedOptions = <<>>
  /\ service = NoService
  /\ probe = [fn |-> "decorators",
              classKey |-> [c \in ServiceClasses |-> <<>>],
              meta |-> [c \in ServiceClasses |-> <<>>],
              classes |-> [c \in ServiceClasses |->
                            [defined |-> FALSE, pub |-> FALSE, defines |-> {},
                             decorated |-> {}]],
              query |-> [k |-> "none"]]

\* The definition of class c is evaluated: it defines the methods `defines`,
\* those in `decorated` with @Public(), and is itself decorated if pub.
DefineClass(c, pub, defines, decorated) ==
  /\ probe.fn = "decorators"
  /\ probe.query.k = "none"
  /\ ~probe.classes[c].defined
  /\ \A i \in 2..Len(protoChain(c)) : probe.classes[protoChain(c)[i]].defined
  /\ decorated \subseteq defines
  /\ probe' = [probe EXCEPT
       !.classes[c] = [defined |-> TRUE, pub |-> pub, defines |-> defines,
                       decorated |-> decorated],
       !.meta = PublicMethods(probe.meta, c, decorated),
       !.classKey[c] = IF pub THEN <<TRUE>> ELSE <<>>]
  /\ UNCHANGED <<coreVars, tokenVars, build, sharedOptions, service>>

\* isPublicMethod(instance, m) for an instance of class c
AskIsPublicMethod(c, m) ==
  /\ probe.fn = "decorators"
  /\ probe.classes[c].defined
  /\ probe' = [probe EXCEPT !.query =
       [k |-> "isPublicMethod", c |-> c, m |-> m,
        result |-> isPublicMethod(targetOf(probe, c), m)]]
  /\ UNCHANGED <<coreVars, tokenVars, build, sharedOptions, service>>

\* getPublicMethods(instance) for an instance of class c
AskPublicMethods(c) ==
  /\ probe.fn = "decorators"
  /\ probe.classes[c].defined
  /\ probe' = [probe EXCEPT !.query =
       [k |-> "getPublicMethods", c |-> c, result |-> getPublicMethods(probe, c)]]
  /\ UNCHANGED <<coreVars, tokenVars, build, sharedOptions, service>>

NextDecorators ==
  \/ \E c \in ServiceClasses, pub \in BOOLEAN,
        defines, decorated \in SUBSET {"list", "create"} :
       DefineClass(c, pub, defines, decorated)
  \/ \E c \in ServiceClasses, m \in {"list", "create"} : AskIsPublicMethod(c, m)
  \/ \E c \in ServiceClasses : AskPublicMethods(c)

SpecDecorators == InitDecorators /\ [][NextDecorators]_vars

(***************************************************************************)
(* Mocks: BaseService.request (types.ts 204-211), registerMock and         *)
(* enableMocking (helpers.ts 74-105).  The MockAdapter is its list of      *)
(* handlers; a request registers its mock in the synchronous part of       *)
(* request(), takes the adapter the instance has when this.api[method] is  *)
(* called, and is dispatched to it after the request interceptors ran (the *)
(* service is one with interceptors, isPublic false).  Mock data is        *)
(* "undefined", a value, or "fn" for a function; a status of 0 stands for  *)
(* undefined.                                                              *)
(***************************************************************************)
\* Two requests of one service, in flight together.
MockReqs == {1, 2}
\* What a function given as mock data returns: { data: 'fd' }, no status.
FnResult == [data |-> "fd", status |-> 0]

\* status ?? 200, the default of mockStatus and of registerMock's status
statusOr200(status) == IF status = 0 THEN 200 ELSE status

SameMatcher(h, method, url) == h.method = method /\ h.url = url

\* (mock[methodName])(url).reply(...)
addHandler(handlers, policy, h) ==
  IF policy = "replace" /\ \E i \in 1..Len(handlers) : SameMatcher(handlers[i], h.method, h.url)
    THEN [i \in 1..Len(handlers) |->
            IF SameMatcher(handlers[i], h.method, h.url) THEN h ELSE handlers[i]]
    ELSE Append(handlers, h)

\* registerMock(mock, method, url, data, status); mock is defined when called.
registerMock(handlers, policy, method, url, data, status) ==
  addHandler(handlers, policy, [method |-> method, url |-> url, data |-> data,
                                status |-> status])

\* if ((isMock || this.options.useMock) && mockData !== undefined)
registersMock(isMock, useMock, mockData) ==
  (isMock \/ useMock) /\ mockData # "undefined"

\* The reply callback of registerMock: [status, data], or what the function
\* given as data returns.
replyOf(h) ==
  IF h.data = "fn" THEN [status |-> statusOr200(FnResult.status), data |-> FnResult.data]
  ELSE [status |-> h.status, data |-> h.data]

\* The adapter's answer to a request: the reply of the first handler that
\* matches, else the network (onNoMatch: 'passthrough').
adapterAnswer(mock, handlers, method, url) ==
  IF mock /\ \E i \in 1..Len(handlers) : SameMatcher(handlers[i], method, url)
    THEN LET i == CHOOSE j \in 1..Len(handlers) :
                    /\ SameMatcher(handlers[j], method, url)
                    /\ \A l \in 1..(j - 1) : ~SameMatcher(handlers[l], method, url)
             r == replyOf(handlers[i])
         IN  [via |-> "mock", status |-> r.status, data |-> r.data]
    ELSE [via |-> "network", status |-> 0, data |-> "undefined"]

MockUrl == "api/v1/list"
NoMockReq == [phase |-> "new", method |-> "get", isMock |-> FALSE,
              mockData |-> "undefined", mockStatus |-> 0, registered |-> FALSE,
              mocked |-> FALSE,
              answer |-> [via |-> "none", status |-> 0, data |-> "undefined"]]

InitMock ==
  /\ CoreIdle
  /\ TokenIdle
  /\ build = "helpers"
  /\ sharedOptions = <<>>
  /\ service = NoService
  \* On a second reply() handler for the same method and URL a MockAdapter
  \* replaces the first; older ones keep both and use the first.
  /\ \E useMock \in BOOLEAN, policy \in {"replace", "append"} :
       probe = [fn |-> "mock", useMock |-> useMock, policy |-> policy,
                mock |-> useMock, handlers |-> <<>>,
                reqs |-> [i \in MockReqs |-> NoMockReq]]

\* BaseService.request up to and with the call of this.api[method], which
\* merges the instance's defaults, the adapter among them, into the request:
\* the request goes to the MockAdapter if this.mock exists by then.
MockRequest(i, method, isMock, mockData, mockStatus) ==
  /\ probe.reqs[i].phase = "new"
  /\ LET reg == registersMock(isMock, probe.useMock, mockData)
     IN  probe' = [probe EXCEPT
           !.mock = probe.mock \/ reg,
           !.handlers = IF reg
                          THEN registerMock(probe.handlers, probe.policy, method, MockUrl,
                                            mockData, statusOr200(mockStatus))
                          ELSE probe.handlers,
           !.reqs[i] = [phase |-> "dispatching", method |-> method, isMock |-> isMock,
                        mockData |-> mockData, mockStatus |-> mockStatus,
                        registered |-> reg, mocked |-> probe.mock \/ reg,
                        answer |-> NoMockReq.answer]]
  /\ UNCHANGED <<coreVars, tokenVars, build, sharedOptions, service>>

\* The request reaches its adapter: the MockAdapter looks through the
\* handlers it has by now, the network adapter sends the request.
MockDispatch(i) ==
  /\ probe.reqs[i].phase = "dispatching"
  /\ probe' = [probe EXCEPT
       !.reqs[i].phase = "answered",
       !.reqs[i].answer = adapterAnswer(probe.reqs[i].mocked, probe.handlers,
                                        probe.reqs[i].method, MockUrl)]
  /\ UNCHANGED <<coreVars, tokenVars, build, sharedOptions, service>>

NextMock ==
  \/ \E i \in MockReqs, m \in {"get", "post"}, im \in BOOLEAN,
        d \in {"undefined", "d1", "d2", "fn"}, st \in {0, 404} :
       MockRequest(i, m, im, d, st)
  \/ \E i \in MockReqs : MockDispatch(i)

SpecMock == InitMock /\ [][NextMock]_vars

(***************************************************************************)
(* Failures: the catch of BaseService.request (types.ts 222-233) and the   *)
(* default transformError (types.ts 150).  An error is a record of its     *)
(* response (absent, or one with a body) and its message; "undefined" and  *)
(* "null" stand for the two nullish values.                                *)
(***************************************************************************)
Nullish == {"undefined", "null"}

\* err.response?.data
responseData(err) == IF err.response = <<>> THEN "undefined" ELSE err.response[1].data

\* (err) => err.response?.data ?? { message: err.message || 'Network error' }
defaultTransformError(err) ==
  IF responseData(err) \notin Nullish
    THEN [is |-> "data", data |-> responseData(err)]
    ELSE [is |-> "object",
          message |-> IF err.message \in {"undefined", ""} THEN "Network error"
                      ELSE err.message]

\* A transformError given in the options, as the README's: a new object
\* built from the error.
customTransformError(err) == [is |-> "custom", of |-> err]

transformError(which, err) ==
  IF which = "default" THEN defaultTransformError(err) ELSE customTransformError(err)

\* The error itself, as a thrown value.
rawError(err) == [is |-> "error", of |-> err]

\* catch (error) { throw this.options.transformError(error) }
requestCatch_rethrow(which, err) == rawError(err)
requestCatch(which, err) == transformError(which, err)

InitError ==
  /\ CoreIdle
  /\ TokenIdle
  /\ build = "helpers"
  /\ sharedOptions = <<>>
  /\ service = NoService
  /\ \E which \in {"default", "custom"} :
       probe = [fn |-> "error", transformError |-> which, phase |-> "idle",
                method |-> "get", failed |-> FALSE, error |-> <<>>,
                outcome |-> [k |-> "none"]]

\* get, post, put, patch and delete call request, which awaits
\* this.api[method]: it fulfils with a response or rejects with an error.
VerbCalled(method, failed, err) ==
  /\ probe.fn = "error"
  /\ probe.phase = "idle"
  /\ probe' = [probe EXCEPT !.phase = "awaiting", !.method = method,
                            !.failed = failed,
                            !.error = IF failed THEN <<err>> ELSE <<>>]
  /\ UNCHANGED <<coreVars, tokenVars, build, sharedOptions, service>>

\* The await of request settles: response.data is returned, or the catch
\* throws.
VerbSettled ==
  /\ probe.fn = "error"
  /\ probe.phase = "awaiting"
  /\ probe' = [probe EXCEPT !.phase = "done",
         !.outcome = IF probe.failed
                       THEN [k |-> "thrown",
                             value |-> requestCatch(probe.transformError, probe.error[1])]
                       ELSE [k |-> "returned"]]
  /\ UNCHANGED <<coreVars, tokenVars, build, sharedOptions, service>>

NextError ==
  \/ \E m \in {"get", "post", "put", "patch", "delete"}, failed \in BOOLEAN,
        err \in [response : {<<>>} \cup {<<[data |-> d]>> :
                                            d \in {"undefined", "null", "", "body"}},
                 message : {"undefined", "", "timeout"}] :
       VerbCalled(m, failed, err)
  \/ VerbSettled

SpecError == InitError /\ [][NextError]_vars

\* The refresh promise settles when pending (the proviso of the liveness
\* claims) and every promise reaction and re-send that is due runs.
FairSpec ==
  /\ Spec
  /\ WF_vars(\E k \in Refs : \/ \E rt \in {0, RefreshOf(k)} : RefreshResolve(k, rt)
                               \/ \E err \in {0, k} : RefreshReject(k, err))
  /\ WF_vars(\E k \in Refs : ThenHandler(k))
  /\ WF_vars(\E k \in Refs : CatchHandler(k))
  /\ WF_vars(\E k \in Refs : Finally(k))
  /\ WF_vars(\E r \in Reqs : Intercept(r))
  /\ WF_vars(\E r \in Reqs : Dispatch(r))

(***************************************************************************)
(* The refresh queue: claims C1 - C6                                       *)
(***************************************************************************)

\* The refresh chains that have been started and whose finally has not run.
Outstanding == {k \in Refs : refresh[k].phase \in {"pending", "settled", "handled"}}

\* C1: at most one refreshToken() call is outstanding at any time, and a
\* retry-status failure handled while isRefreshing is true is appended to
\* failedQueue without starting another refresh.
C1_SingleRefresh ==
  /\ Cardinality(Outstanding) <= 1
  /\ \A r \in Reqs, f \in Failures :
       (req[r].pc = "inflight" /\ isRefreshing /\ entersFlow(r, f)) =>
         /\ onRejected(r, f).failedQueue = Append(failedQueue, r)
         /\ onRejected(r, f).refresh = refresh

\* A second failure was parked behind the one pending refresh.
C1_Witness ==
  /\ isRefreshing
  /\ Len(failedQueue) >= 2
  /\ \E k \in Refs : refresh[k].phase = "pending"

\* C2: once the then handler of a resolved refresh has run, every request
\* that was in failedQueue when the refresh resolved (the one that started the
\* refresh among them) has been re-sent by it, once, and if its caller's
\* promise has settled it settled with the outcome of the second send.
C2_ReplayOnResolve ==
  \A k \in Refs :
    (refresh[k].ok /\ refresh[k].phase \in {"handled", "done"}) =>
      /\ refresh[k].by \in refresh[k].snap
      /\ \A r \in refresh[k].snap :
           /\ req[r].via = k
           /\ req[r].pc \in {"sending", "dispatching", "inflight", "resolved", "rejected"}
           /\ req[r].sends = IF req[r].pc \in {"sending", "dispatching"} THEN 1 ELSE 2
           /\ req[r].pc \in {"resolved", "rejected"} =>
                (req[r].out.k \in {"ok", "http"} /\ req[r].out.n = 2)

\* Two requests were queued when the refresh resolved; one replay succeeded
\* and the other failed again.
C2_Witness ==
  \E k \in Refs :
    /\ refresh[k].ok /\ refresh[k].phase = "done"
    /\ \E r1, r2 \in refresh[k].snap :
         /\ req[r1].pc = "resolved" /\ req[r1].out.n = 2
         /\ req[r2].pc = "rejected" /\ req[r2].out.n = 2

\* C3: (under FairSpec: every refresh settles, every due handler runs) a
\* request parked in failedQueue eventually leaves it, replayed or rejected.
C3_QueuedEventuallyLeaves ==
  \A r \in Reqs : (req[r].pc = "queued") ~> (req[r].pc # "queued")

\* C4: once the chain of a rejected refresh k has finished, every request
\* that was queued behind k is rejected with k's error and was sent once
\* only, none of them is left in failedQueue, and logout was called once.
C4_RejectAllOnFailure ==
  \A k \in Refs :
    (~refresh[k].ok /\ refresh[k].phase = "done") =>
      /\ \A r \in Reqs : req[r].behind = k =>
           /\ req[r].pc = "rejected"
           /\ req[r].out = [k |-> "refresh", e |-> k, n |-> 1]
           /\ ~InQueue(failedQueue, r)
      /\ refresh[k].logouts = 1

\* What the catch handler does, when the reason of the rejection is not
\* falsy, for the requests that are in failedQueue when it runs: all rejected
\* with the refresh error, none re-sent, one logout.
CatchRejectsSnapshot ==
  \A k \in Refs :
    (~refresh[k].ok /\ refresh[k].phase \in {"handled", "done"}) =>
      /\ refresh[k].err # 0 =>
           \A r \in refresh[k].snap :
             /\ req[r].pc = "rejected"
             /\ req[r].out = [k |-> "refresh", e |-> k, n |-> 1]
             /\ req[r].via = 0
      /\ refresh[k].logouts = 1

\* C5: a request is sent at most twice and starts at most one refresh; a
\* failure of a request already marked _retry is rejected with that error,
\* is not queued and starts no refresh.
C5_RetryAtMostOnce ==
  /\ \A r \in Reqs :
       /\ req[r].sends <= 2
       /\ Cardinality({k \in Refs : refresh[k].by = r}) <= 1
  /\ \A r \in Reqs, f \in Failures :
       (req[r].pc = "inflight" /\ req[r].retry) =>
         /\ onRejected(r, f).req[r].pc = "rejected"
         /\ onRejected(r, f).req[r].out = [k |-> "http", e |-> 0, n |-> req[r].sends]
         /\ onRejected(r, f).failedQueue = failedQueue
         /\ onRejected(r, f).isRefreshing = isRefreshing
         /\ onRejected(r, f).refresh = refresh

\* A replayed request failed again and was rejected with its second error.
C5_Witness ==
  \E r \in Reqs :
    /\ req[r].retry /\ req[r].via # 0
    /\ req[r].pc = "rejected" /\ req[r].out = [k |-> "http", e |-> 0, n |-> 2]

\* The condition C6 gives for entering the refresh flow.
C6_Condition(r, f) ==
  /\ f.status # 0 /\ f.status \in opts.retryOnStatusCodes
  /\ ~req[r].retry
  /\ opts.hasRefreshToken

C6_Iff ==
  \A r \in Reqs, f \in Failures :
    req[r].pc = "inflight" =>
      /\ InQueue(onRejected(r, f).failedQueue, r) <=> C6_Condition(r, f)
      /\ onRejected(r, f).req[r].retry <=> (req[r].retry \/ C6_Condition(r, f))
      /\ ~C6_Condition(r, f) =>
           /\ onRejected(r, f).req[r].pc = "rejected"
           /\ onRejected(r, f).req[r].out = [k |-> "http", e |-> 0, n |-> req[r].sends]
           /\ onRejected(r, f).failedQueue = failedQueue
           /\ onRejected(r, f).isRefreshing = isRefreshing
           /\ onRejected(r, f).refresh = refresh

C6_Frame ==
  \A r \in Reqs :
    (req[r].pc = "inflight" /\ req'[r].pc = "rejected") =>
      UNCHANGED <<failedQueue, isRefreshing, refresh, store, rstore>>

\* C6: a failure enters the refresh flow iff its status is in
\* retryOnStatusCodes, its request is not marked _retry and a refreshToken
\* handler is configured; otherwise it is rejected with the original error and
\* isRefreshing, failedQueue, the refresh chains (logout calls among them) and
\* the stored tokens stay as they are.
C6_RefreshFlowIff == []C6_Iff /\ [][C6_Frame]_vars

\* A first failure was rejected with its own error while another request
\* was parked behind a refresh.
C6_Witness ==
  /\ opts.hasRefreshToken /\ isRefreshing /\ failedQueue # <<>>
  /\ \E r \in Reqs :
       /\ req[r].pc = "rejected" /\ ~req[r].retry
       /\ req[r].out = [k |-> "http", e |-> 0, n |-> 1]

(***************************************************************************)
(* The Authorization header: claims C7, C8, C10                            *)
(***************************************************************************)

\* The request interceptor of request r runs in this step, on its first send
\* or on its re-send; and request r is handed to the adapter in this step.
InterceptStep(r) == req[r].pc = "sending" /\ req'[r].pc = "dispatching"
DispatchStep(r) == req[r].pc = "dispatching" /\ req'[r].pc = "inflight"

C7_OriginalStep ==
  \A r \in Reqs :
    (DispatchStep(r) /\ ~req'[r].pub) =>
      req'[r].auth = IF store # 0 THEN Bearer(store) ELSE NoHeader

\* C7 as claimed: every non-public request is sent with Bearer t for the
\* non-empty t getAccessToken() returns at send time, and with no
\* Authorization header when it returns none.
C7_Original == [][C7_OriginalStep]_vars

C7_Step ==
  \A r \in Reqs :
    /\ (InterceptStep(r) /\ ~req[r].pub
          /\ (req[r].via = 0 \/ refresh[req[r].via].ok)) =>
         req'[r].auth =
           IF store # 0 THEN Bearer(store)
           ELSE IF req[r].via = 0 THEN NoHeader
           ELSE Bearer(AccessOf(req[r].via))
    /\ DispatchStep(r) => req'[r].auth = req[r].auth

\* C7 as amended: the request interceptor of a non-public request, on a
\* first send or on a re-send after a successful refresh, sets Bearer t for
\* the non-empty t getAccessToken() returns when it runs; when it returns
\* none a first send is left without Authorization header and a re-send keeps
\* Bearer a, the refreshed token processQueueInternal put there.  The request
\* reaches the adapter, a turn later, with the header the interceptor left,
\* whatever the store holds by then.
C7_BearerAtSend == [][C7_Step]_vars

\* A non-public request was re-sent while the store was empty and carries
\* the refreshed token.
C7_Witness ==
  \E r \in Reqs :
    /\ req[r].pc = "inflight" /\ ~req[r].pub /\ req[r].via # 0
    /\ refresh[req[r].via].ok
    /\ store = 0
    /\ req[r].auth = Bearer(AccessOf(req[r].via))

\* C8: a public request is never in flight with an Authorization header,
\* on its first send or on a re-send.
C8_PublicNeverAuth ==
  \A r \in Reqs :
    (req[r].pub /\ req[r].pc = "inflight") => req[r].auth = NoHeader

\* C10 as claimed: every request re-sent after a successful refresh is in
\* flight with Bearer a, a the accessToken of the refresh that replayed it.
C10_Original ==
  \A r \in Reqs :
    (req[r].pc = "inflight" /\ req[r].via # 0 /\ refresh[req[r].via].ok) =>
      req[r].auth = Bearer(AccessOf(req[r].via))

C10_Step ==
  \A r \in Reqs :
    /\ (req[r].pc = "queued" /\ req'[r].pc = "sending"
          /\ refresh[req'[r].via].ok) =>
         /\ req'[r].auth = Bearer(AccessOf(req'[r].via))
         /\ opts.handlers = "default" => store' = AccessOf(req'[r].via)
    /\ (InterceptStep(r) /\ req[r].via # 0 /\ refresh[req[r].via].ok) =>
         req'[r].auth =
           IF ~req[r].pub /\ store # 0 THEN Bearer(store)
           ELSE Bearer(AccessOf(req[r].via))
    /\ DispatchStep(r) => req'[r].auth = req[r].auth

\* C10 as amended: the then handler sets Bearer a on every replayed request
\* (and, with the default handlers, stores a); the request interceptor of the
\* re-send leaves Bearer a if the request is public or getAccessToken()
\* returns none when it runs, and otherwise sets Bearer t for the t
\* getAccessToken() returns then; the re-send reaches the adapter with the
\* header the interceptor left.
C10_ResendHeader == [][C10_Step]_vars

\* A re-sent request is in flight with a token other than the refreshed one.
C10_Witness ==
  \E r \in Reqs :
    /\ req[r].pc = "inflight" /\ req[r].via # 0 /\ ~req[r].pub
    /\ refresh[req[r].via].ok
    /\ req[r].auth # Bearer(AccessOf(req[r].via))
    /\ req[r].auth = Bearer(store)

(***************************************************************************)
(* The @Public() method decorator: claim C9                                *)
(***************************************************************************)

\* C9: in a class where some methods are decorated and others are not, a
\* request issued without isPublic from method m is flagged public exactly
\* when m is decorated.
C9_FlagFollowsDecoration ==
  (/\ call.phase = "flagged"
   /\ ~call.classPublic /\ ~call.isPublic
   /\ call.decorated # {} /\ call.decorated # MethodNames)
     => (call.flag <=> call.method \in call.decorated)

\* The same for the methods whose name holds none of the skipped substrings.
FlagFollowsDecorationUnlessSkipped ==
  (/\ call.phase = "flagged"
   /\ ~call.classPublic /\ ~call.isPublic
   /\ ~\E p \in SkipWords : includes(call.method, p))
     => (call.name = call.method /\ (call.flag <=> call.method \in call.decorated))

(***************************************************************************)
(* The token store: claims C11 - C13                                       *)
(***************************************************************************)

\* What getToken(config) / getRefreshToken(config) return in the current state.
AccessRead(config) == getToken(tokenStorage, globalTokenConfig, config)
RefreshRead(config) == getRefreshToken(tokenStorage, globalTokenConfig, config)

\* The slot a configuration's access / refresh entry resolves to.
AccessSlot(config, global) ==
  LET e == AccessEntry(config, global) IN <<StorageOf(e.storage), e.tokenKey>>
RefreshSlot(config, global) ==
  LET e == RefreshEntry(config, global) IN <<StorageOf(e.storage), e.tokenKey>>

\* The calls that write the access token and those that write the refresh
\* token; the then handler of a refresh writes both when its result holds a
\* refresh token.
AccessWrites == {"setToken", "removeToken", "refreshed"}
RefreshWrites == {"setRefreshToken", "removeRefreshToken"}
WritesRefresh(op) ==
  op.op \in RefreshWrites \/ (op.op = "refreshed" /\ op.refresh # 0)

\* A read right after a write with the same configuration returns what was
\* written: t after set, null after remove, for both tokens.
ReadsBackWrite ==
  /\ tokenOp.op = "setToken" => AccessRead(tokenOp.config) = tokenOp.token
  /\ tokenOp.op = "removeToken" => AccessRead(tokenOp.config) = 0
  /\ tokenOp.op = "setRefreshToken" => RefreshRead(tokenOp.config) = tokenOp.token
  /\ tokenOp.op = "removeRefreshToken" => RefreshRead(tokenOp.config) = 0

\* The claim as stated: only setToken / removeToken (the default setAccessToken
\* of a service is a setToken) change what getToken returns, and only
\* setRefreshToken / removeRefreshToken what getRefreshToken returns, the
\* configuration staying the same.
C11_OriginalStep ==
  \A c \in OptTokenConfigs :
    /\ tokenOp'.op \notin AccessWrites \cup {"configureToken"}
         => getToken(tokenStorage', globalTokenConfig', c) = AccessRead(c)
    /\ (~WritesRefresh(tokenOp') /\ tokenOp'.op # "configureToken")
         => getRefreshToken(tokenStorage', globalTokenConfig', c) = RefreshRead(c)

C11_Original == []ReadsBackWrite /\ [][C11_OriginalStep]_vars

\* The slot written by the call that tokenOp' records, under the
\* configuration the call was made with.
WrittenSlot ==
  (IF tokenOp'.op \in AccessWrites
     THEN {AccessSlot(tokenOp'.config, globalTokenConfig)} ELSE {})
  \cup (IF WritesRefresh(tokenOp')
          THEN {RefreshSlot(tokenOp'.config, globalTokenConfig)} ELSE {})

C11_Step ==
  \A c \in OptTokenConfigs :
    /\ getToken(tokenStorage', globalTokenConfig', c) # AccessRead(c)
         => \/ tokenOp'.op = "configureToken" /\ c = <<>>
            \/ AccessSlot(c, globalTokenConfig) \in WrittenSlot
    /\ getRefreshToken(tokenStorage', globalTokenConfig', c) # RefreshRead(c)
         => \/ tokenOp'.op = "configureToken" /\ (c = <<>> \/ c[1].refreshToken = <<>>)
            \/ RefreshSlot(c, globalTokenConfig) \in WrittenSlot

\* C11: for every storage kind and key, getToken() with the same
\* configuration returns t after setToken(t) and null after removeToken(),
\* and keeps returning it until the next set or remove, of either token, that
\* resolves to the same storage and key; the same for the refresh token.
C11_RoundTrip == []ReadsBackWrite /\ [][C11_Step]_vars

\* getToken() returned a token stored in sessionStorage under a configured key.
C11_Witness ==
  /\ tokenOp.op = "getToken" /\ tokenOp.token = 2
  /\ AccessSlot(tokenOp.config, globalTokenConfig) = <<"sessionStorage", DEFAULT_ACCESS_TOKEN_KEY>>

\* The access and the refresh entry of the configuration a call is made
\* under: the config argument, its missing parts taken from the defaults and,
\* for a missing refresh entry or a missing argument, from globalTokenConfig.
ConfiguredAccess(c) ==
  IF c = <<>>
    THEN <<globalTokenConfig.storage, globalTokenConfig.tokenKey>>
    ELSE <<OrDefault(c[1].storage, "cookie"),
           OrDefault(c[1].tokenKey, DEFAULT_ACCESS_TOKEN_KEY)>>
ConfiguredRefresh(c) ==
  IF c # <<>> /\ c[1].refreshToken # <<>>
    THEN <<OrDefault(c[1].refreshToken[1].storage, "cookie"),
           OrDefault(c[1].refreshToken[1].tokenKey, DEFAULT_REFRESH_TOKEN_KEY)>>
    ELSE <<globalTokenConfig.refreshToken[1].storage,
           globalTokenConfig.refreshToken[1].tokenKey>>

C12_Step ==
  \A c \in OptTokenConfigs :
    (tokenOp'.config = c /\ ConfiguredAccess(c) # ConfiguredRefresh(c)) =>
      /\ tokenOp'.op \in RefreshWrites
           => getToken(tokenStorage', globalTokenConfig', c) = AccessRead(c)
      /\ (tokenOp'.op \in AccessWrites /\ ~WritesRefresh(tokenOp'))
           => getRefreshToken(tokenStorage', globalTokenConfig', c) = RefreshRead(c)
      /\ (tokenOp'.op = "refreshed" /\ WritesRefresh(tokenOp'))
           => /\ getToken(tokenStorage', globalTokenConfig', c) = tokenOp'.token
              /\ getRefreshToken(tokenStorage', globalTokenConfig', c) = tokenOp'.refresh

\* C12: under a configuration whose access and refresh entries differ in key
\* or storage (the default one does), setRefreshToken and removeRefreshToken
\* leave what getToken returns unchanged, and setToken and removeToken leave
\* what getRefreshToken returns unchanged; a refresh that stores both tokens
\* leaves each readable.
C12_StoredSeparately == [][C12_Step]_vars

\* Both tokens are stored under the same key in two storages, and the refresh
\* token was set last.
C12_Witness ==
  /\ tokenOp.op = "setRefreshToken" /\ tokenOp.config = <<>>
  /\ globalTokenConfig.tokenKey = globalTokenConfig.refreshToken[1].tokenKey
  /\ globalTokenConfig.storage # globalTokenConfig.refreshToken[1].storage
  /\ AccessRead(<<>>) = 1 /\ RefreshRead(<<>>) = 2

\* What a service with the default token handlers attaches now, and whether
\* it is a service without tokenConfig.
Attached == serviceGetAccessToken(tokenStorage, globalTokenConfig, tokenService)
GlobalService == tokenService.built /\ tokenService.tokenConfig = <<>>

C13_OriginalInv ==
  GlobalService =>
    /\ tokenOp.op = "attach" => tokenOp.token = AccessRead(<<>>)
    /\ (tokenOp.op = "setToken" /\ tokenOp.config = <<>>) => Attached = tokenOp.token
    /\ tokenOp.op = "refreshed" => Attached = tokenOp.token

C13_OriginalStep ==
  (GlobalService /\ tokenOp'.config = <<>> /\ tokenOp'.op \notin AccessWrites)
    => serviceGetAccessToken(tokenStorage', globalTokenConfig', tokenService') = Attached

\* C13 as claimed: a service without tokenConfig attaches the token most
\* recently stored with setToken() under the current global token
\* configuration: what it attaches is read under the configuration of the
\* time of the request, is t after setToken(t), is the refreshed access token
\* after a refresh, and is left alone by every other call made under the
\* global configuration.
C13_Original == []C13_OriginalInv /\ [][C13_OriginalStep]_vars

C13_Inv ==
  GlobalService =>
    /\ tokenOp.op = "attach" => tokenOp.token = AccessRead(<<>>)
    /\ (tokenOp.op = "setToken"
          /\ AccessSlot(tokenOp.config, globalTokenConfig)
               = AccessSlot(<<>>, globalTokenConfig)) => Attached = tokenOp.token
    /\ (tokenOp.op = "setRefreshToken"
          /\ RefreshSlot(tokenOp.config, globalTokenConfig)
               = AccessSlot(<<>>, globalTokenConfig)) => Attached = tokenOp.token
    /\ tokenOp.op = "refreshed" =>
         Attached =
           IF tokenOp.refresh # 0
              /\ RefreshSlot(<<>>, globalTokenConfig) = AccessSlot(<<>>, globalTokenConfig)
             THEN tokenOp.refresh ELSE tokenOp.token

C13_Step ==
  (GlobalService
     /\ serviceGetAccessToken(tokenStorage', globalTokenConfig', tokenService') # Attached)
    => \/ tokenOp'.op = "configureToken"
       \/ AccessSlot(<<>>, globalTokenConfig) \in WrittenSlot

\* C13 as amended: a service without tokenConfig and without custom token
\* handlers attaches what is stored, at the time of the request, under the
\* storage and key the current global token configuration names for the
\* access token: the value most recently written there, by setToken(), by a
\* refresh or, when a refresh entry resolves to the same storage and key, by
\* setRefreshToken(); a refreshed access token is written to that location,
\* and the refresh token of the same result is written over it when the global
\* refresh entry names the same storage and key.
C13_GlobalConfigAtCallTime == []C13_Inv /\ [][C13_Step]_vars

\* configureToken was called after the service was constructed, and the
\* service attached the token of the new location, not that of the old one.
C13_Witness ==
  /\ tokenService.built /\ tokenService.tokenConfig = <<>>
  /\ tokenService.constructedUnder # globalTokenConfig
  /\ tokenOp.op = "attach" /\ tokenOp.token = 2
  /\ getToken(tokenStorage, tokenService.constructedUnder, <<>>) = 1

(***************************************************************************)
(* The request path: claim C14                                             *)
(***************************************************************************)

\* The endpoint without its leading '/' characters: what follows the longest
\* prefix made of '/' only.
WithoutLeadingSlashes(e) ==
  LET k == CHOOSE n \in 0..Len(e) :
             /\ \A i \in 1..n : e[i] = "/"
             /\ n = Len(e) \/ e[n + 1] # "/"
  IN  SubSeq(e, k + 1, Len(e))

\* a/b, or the one that is not empty.
Glue(a, b) == IF a = <<>> THEN b ELSE IF b = <<>> THEN a ELSE a \o S_slash \o b

\* The version of a request: its own when given, else the service's.
VersionUsed == IF probe.version # <<>> THEN probe.version[1] ELSE probe.optionsVersion

\* C14: the request path is serviceName/version/endpoint, with the request's
\* version when given and the service's otherwise and without the leading '/'
\* characters of the endpoint; buildUrl leaves out the empty components and
\* joins the others by one '/' each.
C14_RequestPath ==
  (probe.fn = "url" /\ probe.phase = "built") =>
    /\ build = "helpers" =>
         probe.url = Glue(Glue(probe.serviceName, VersionUsed),
                          WithoutLeadingSlashes(probe.endpoint))
    /\ build = "inline" =>
         probe.url = probe.serviceName \o S_slash \o VersionUsed \o S_slash
                       \o WithoutLeadingSlashes(probe.endpoint)
    /\ (probe.serviceName # <<>> /\ VersionUsed # <<>>
        /\ WithoutLeadingSlashes(probe.endpoint) # <<>>) =>
         probe.url = probe.serviceName \o S_slash \o VersionUsed \o S_slash
                       \o WithoutLeadingSlashes(probe.endpoint)

\* buildUrl made org/v2/me from an endpoint with two leading '/' characters.
C14_Witness ==
  /\ probe.fn = "url" /\ probe.phase = "built" /\ build = "helpers"
  /\ probe.endpoint = <<"/", "/", "m", "e">>
  /\ probe.url = <<"o", "r", "g", "/", "v", "2", "/", "m", "e">>

(***************************************************************************)
(* Service construction: claims C15 - C17 and C20                          *)
(***************************************************************************)

\* The defaults the documentation gives (README, BaseServiceOptions).
DocumentedDefaults ==
  [serviceName |-> "api", version |-> "v1", retryOnStatusCodes |-> {401},
   useMock |-> FALSE, mockDelay |-> 1000]

\* The options object configureBaseService was last called with, if any.
SharedAt == IF service.sharedAt = <<>> THEN [k \in {} |-> 0] ELSE service.sharedAt[1]

\* own value, else shared value, else default d.
Precedence(k, d) ==
  IF k \in DOMAIN service.arg THEN service.arg[k]
  ELSE IF k \in DOMAIN SharedAt THEN SharedAt[k]
  ELSE d[k]

\* C15: every option of an ApiService instance has the per-service override
\* if given, else the value passed to configureBaseService, else the built-in
\* default: serviceName 'api', version 'v1', retryOnStatusCodes [401],
\* useMock false, mockDelay 1000.
C15_OptionPrecedence ==
  (service.how = "ApiService" /\ ~service.threw) =>
    \A k \in PrecedenceKeys : service.made.options[k] = Precedence(k, DocumentedDefaults)

\* The order of precedence itself holds in every build, over the defaults of
\* that build's constructor.
PrecedenceOverBuildDefaults ==
  (service.how = "ApiService" /\ ~service.threw) =>
    \A k \in PrecedenceKeys : service.made.options[k] = Precedence(k, Defaults(build))

\* C16: new ApiService(), createService() and createServiceWithTokens()
\* throw and make no service while configureBaseService has not been called,
\* and make a service once it has.
C16_RequiresConfigure ==
  service.how \in {"ApiService", "createService", "createServiceWithTokens"} =>
    /\ service.threw <=> service.sharedAt = <<>>
    /\ service.threw => "options" \notin DOMAIN service.made
    /\ ~service.threw => "options" \in DOMAIN service.made

\* createServiceWithTokens() was called before configureBaseService() and threw.
C16_Witness ==
  /\ service.how = "createServiceWithTokens"
  /\ service.sharedAt = <<>> /\ service.threw

\* An ApiService was constructed after configureBaseService().
ApiServiceConstructed ==
  service.how = "ApiService" /\ service.sharedAt # <<>> /\ ~service.threw

\* C17: new BaseService(options) does not need configureBaseService to have
\* been called, and its options are those passed to the constructor and
\* otherwise the built-in defaults, never a shared one.
C17_BaseServiceStandalone ==
  service.how = "BaseService" =>
    /\ ~service.threw
    /\ \A k \in PrecedenceKeys :
         service.made.options[k] =
           IF k \in DOMAIN service.arg THEN service.arg[k] ELSE DocumentedDefaults[k]

\* The same for the builds whose BaseService constructor does not read
\* sharedOptions.
BaseServiceStandaloneUnlessShared ==
  (service.how = "BaseService" /\ build # "shared") =>
    /\ ~service.threw
    /\ \A k \in PrecedenceKeys :
         service.made.options[k] =
           IF k \in DOMAIN service.arg THEN service.arg[k] ELSE DocumentedDefaults[k]

\* A service constructed with isPublic: true, by a build that has the option.
IsPublicService ==
  /\ build # "inline"
  /\ service.how # "none" /\ ~service.threw
  /\ service.made.options["isPublic"]

\* C20: a service constructed with isPublic: true has no interceptors: its
\* requests go out without a library-added Authorization header and their
\* failures are rejected without a refreshToken() call, a queued request or
\* a logout.
C20_PublicServiceNoInterceptors ==
  IsPublicService =>
    /\ ~service.made.interceptors
    /\ req[1].auth = NoHeader
    /\ req[1].pc # "queued" /\ failedQueue = <<>> /\ ~isRefreshing
    /\ \A k \in Refs : refresh[k].phase = "none" /\ refresh[k].logouts = 0
    /\ (service.sent # <<>> /\ service.sent[1].failure # <<>>) =>
         req[1].pc = "rejected"

\* A public service with refreshToken configured sent a request while a token
\* was stored and got a 401.
C20_Witness ==
  /\ IsPublicService
  /\ "refreshToken" \in DOMAIN service.made.options
  /\ 401 \in service.made.options["retryOnStatusCodes"]
  /\ service.sent # <<>>
  /\ service.sent[1].token # 0 /\ ~req[1].pub
  /\ service.sent[1].failure = <<[hasConfig |-> TRUE, status |-> 401]>>

(***************************************************************************)
(* Mocks: claim C18                                                        *)
(***************************************************************************)

\* The claim for one answered request.
MockAnsweredAsGiven(r) ==
  /\ ((r.isMock \/ probe.useMock) /\ r.mockData # "undefined") =>
       /\ r.answer.via = "mock"
       /\ r.answer.data = r.mockData
       /\ r.answer.status = (IF r.mockStatus = 0 THEN 200 ELSE r.mockStatus)
  /\ r.mockData = "undefined" => ~r.registered

\* C18: a request with (isMock or useMock) and mockData defined is answered
\* with mockData and status mockStatus (default 200) without reaching the
\* network; a request with mockData undefined registers no mock.
C18_MockAnswer ==
  probe.fn = "mock" =>
    \A i \in MockReqs :
      probe.reqs[i].phase = "answered" => MockAnsweredAsGiven(probe.reqs[i])

\* The same for a request whose mock data is not a function and whose method
\* and URL no other request has registered a mock for.
MockAnswerWhenAlone ==
  probe.fn = "mock" =>
    \A i \in MockReqs :
      (/\ probe.reqs[i].phase = "answered"
       /\ probe.reqs[i].mockData # "fn"
       /\ \A j \in MockReqs \ {i} :
            probe.reqs[j].registered => probe.reqs[j].method # probe.reqs[i].method)
        => MockAnsweredAsGiven(probe.reqs[i])

\* A request with isMock and no mockData went to the network.
MockUndefinedToNetwork ==
  /\ probe.fn = "mock"
  /\ \E i \in MockReqs :
       /\ probe.reqs[i].phase = "answered" /\ probe.reqs[i].isMock
       /\ probe.reqs[i].mockData = "undefined"
       /\ probe.reqs[i].answer.via = "network"

(***************************************************************************)
(* Failures: claim C19                                                     *)
(***************************************************************************)

\* What the claim says the default transformError returns for err.
DocumentedDefaultTransform(err) ==
  IF err.response # <<>> /\ err.response[1].data \notin Nullish
    THEN [is |-> "data", data |-> err.response[1].data]
    ELSE [is |-> "object",
          message |-> IF err.message \in {"undefined", ""} THEN "Network error"
                      ELSE err.message]

DocumentedTransform(which, err) ==
  IF which = "default" THEN DocumentedDefaultTransform(err)
  ELSE customTransformError(err)

\* C19: every failure of get, post, put, patch or delete reaches the caller
\* as transformError(error), never as the raw error; the default
\* transformError gives the response body when there is one and otherwise
\* {message}, the error's message or 'Network error'.
C19_FailuresTransformed ==
  (probe.fn = "error" /\ probe.phase = "done" /\ probe.failed) =>
    /\ probe.outcome.k = "thrown"
    /\ probe.outcome.value = DocumentedTransform(probe.transformError, probe.error[1])
    /\ probe.outcome.value # rawError(probe.error[1])

\* A failure without a response and without a message reached the caller of
\* delete as {message: 'Network error'}.
C19_Witness ==
  /\ probe.fn = "error" /\ probe.phase = "done" /\ probe.failed
  /\ probe.method = "delete"
  /\ probe.transformError = "default"
  /\ probe.error[1].response = <<>>
  /\ probe.error[1].message = "undefined"
  /\ probe.outcome = [k |-> "thrown",
                      value |-> [is |-> "object", message |-> "Network error"]]

(***************************************************************************)
(* The refresh flag and the queue: claim C21                               *)
(***************************************************************************)

\* C21: in every reachable state, isRefreshing = false implies failedQueue is
\* empty, the then/catch handler and the finally handler being separate steps
\* between which another failure response may be handled.
C21_IdleImpliesEmptyQueue ==
  ~isRefreshing => failedQueue = <<>>

\* A request found parked while no refresh is in progress was pushed between
\* the then/catch handler and the finally handler of a refresh chain.
ParkedOnlyInHandlerGap ==
  ~isRefreshing =>
    \A i \in 1..Len(failedQueue) :
      /\ req[failedQueue[i]].behind # 0
      /\ refresh[req[failedQueue[i]].behind].phase = "done"
      /\ failedQueue[i] \notin refresh[req[failedQueue[i]].behind].snap

(***************************************************************************)
(* One refresh for the requests of one expired token: claim C22            *)
(***************************************************************************)

\* The refreshToken() calls made so far.
RefreshCalls == {k \in Refs : refresh[k].phase # "none"}

\* C22: for several requests sent with the same expired access token exactly
\* one refreshToken() call is made, whatever the order of their failure
\* responses and the refresh result, also for a failure response that
\* arrives after the refresh has completed.
C22_OneRefreshPerExpiredToken ==
  /\ Cardinality(RefreshCalls) <= 1
  /\ (\E r \in Reqs : req[r].retry) => Cardinality(RefreshCalls) = 1

\* The failure responses handled before the finally handler of the first call
\* ran share that call: a later call is made only for a request whose failure
\* was handled after it.
OneRefreshWhileInProgress ==
  \A j, k \in RefreshCalls :
    j < k => /\ refresh[j].phase = "done"
             /\ refresh[k].by \notin refresh[j].snap

(***************************************************************************)
(* The store is written before the replay: claim C23                       *)
(***************************************************************************)

\* The then handler of refresh k runs in this step.
ThenStep(k) ==
  refresh[k].phase = "settled" /\ refresh[k].ok /\ refresh'[k].phase = "handled"

\* C23 as claimed: once the then handler of a refresh has stored the new
\* token, every non-public request handed to the adapter while the store
\* holds it, a re-send or a request sent afterwards, carries it.
C23_OriginalStep ==
  \A r \in Reqs, k \in Refs :
    (/\ DispatchStep(r) /\ ~req[r].pub
     /\ opts.handlers = "default"
     /\ refresh[k].ok /\ refresh[k].phase \in {"handled", "done"}
     /\ store = AccessOf(k))
      => req'[r].auth = Bearer(AccessOf(k))

C23_Step ==
  /\ \A k \in Refs :
       ThenStep(k) =>
         /\ opts.handlers = "default" => store' = AccessOf(k)
         /\ \A r \in Reqs :
              InQueue(failedQueue, r) => req'[r].pc = "sending" /\ req'[r].via = k
  /\ \A r \in Reqs :
       /\ (InterceptStep(r) /\ ~req[r].pub /\ store # 0) =>
            req'[r].auth = Bearer(store) /\ store' = store
       /\ DispatchStep(r) => req'[r].auth = req[r].auth /\ store' = store
  /\ store' # store =>
       \/ \E k \in Refs : ThenStep(k)
       \/ UNCHANGED <<req, refresh, failedQueue, isRefreshing>>

C24_OriginalStep ==
  \A k \in Refs :
    ThenStep(k) =>
      rstore' = IF refresh[k].rt # 0 THEN refresh[k].rt ELSE rstore

C24_Step ==
  /\ \A k \in Refs :
       ThenStep(k) =>
         rstore' = IF refresh[k].rt # 0 /\ opts.hasSetRefreshToken
                     THEN refresh[k].rt ELSE rstore
  /\ rstore' # rstore =>
       \/ \E k \in Refs : ThenStep(k)
       \/ UNCHANGED <<req, refresh, failedQueue, isRefreshing, store>>

RefreshTokenNotStored ==
  \E k \in Refs :
    /\ refresh[k].phase = "handled" /\ refresh[k].ok
    /\ refresh[k].rt = RefreshOf(k)
    /\ ~opts.hasSetRefreshToken
    /\ rstore # RefreshOf(k)

(***************************************************************************)
(* Decorator metadata: claim C25                                           *)
(***************************************************************************)

\* The class of an instance of c, or a class it inherits from, was decorated.
ClassDecorated(c) ==
  \E i \in 1..Len(protoChain(c)) : probe.classes[protoChain(c)[i]].pub

\* Method m was decorated in the class of an instance of c or in a class it
\* inherits from.
MethodDecorated(c, m) ==
  \E i \in 1..Len(protoChain(c)) : m \in probe.classes[protoChain(c)[i]].decorated

\* The names getPublicMethods returned satisfy isPublicMethod.
PublicMethodsArePublic ==
  (probe.fn = "decorators" /\ probe.query.k = "getPublicMethods") =>
    \A n \in probe.query.result : isPublicMethod(targetOf(probe, probe.query.c), n)

\* C25: isPublicMethod(instance, m) is true if and only if the instance's
\* class, or a class it inherits from, was decorated with @Public() or method
\* m was; and every name getPublicMethods(instance) returns satisfies
\* isPublicMethod(instance, name).
C25_PublicIffDecorated ==
  /\ (probe.fn = "decorators" /\ probe.query.k = "isPublicMethod") =>
       (probe.query.result <=>
          (ClassDecorated(probe.query.c) \/ MethodDecorated(probe.query.c, probe.query.m)))
  /\ PublicMethodsArePublic

\* The direction that holds: a decorated class or method is public.
DecoratedImpliesPublic ==
  (probe.fn = "decorators" /\ probe.query.k = "isPublicMethod") =>
    ((ClassDecorated(probe.query.c) \/ MethodDecorated(probe.query.c, probe.query.m))
       => probe.query.result)

\* isPublicMethod is true of a method no class decorated on the chain of the
\* instance, because the name was decorated in another class.
PublicByAnotherClass ==
  /\ probe.fn = "decorators" /\ probe.query.k = "isPublicMethod"
  /\ probe.query.result
  /\ ~ClassDecorated(probe.query.c)
  /\ ~MethodDecorated(probe.query.c, probe.query.m)

====
